---- MODULE Spec2Model ----
(***************************************************************************)
(* Verification model of the voice assistant integration layer:            *)
(*   - camera capability (camera/base.py)                                  *)
(*   - vision analysis clients (tools/cash_recognition.py and siblings)    *)
(*   - listing submission client (tools/asteroid_agent.py)                 *)
(*   - the two orchestrators (main.py: wake word, src/main.py: keyboard)   *)
(* Each component has its own specification over the shared variables;     *)
(* the variables a component does not use keep their initial value.        *)
(***************************************************************************)
EXTENDS Integers, Sequences, FiniteSets, TLC

VARIABLES
    env,            \* os.environ: variable name -> None | "" | value
    camera,         \* global `camera` of the orchestrator module
    recognizers,    \* module globals _recognizer / _reader, per vision module
    toolCall,       \* record of the tool-handler invocation being returned
    b64Call,        \* record of the last CameraCapture.capture_base64() call
    genai_key,      \* key last given to genai.configure (library global)
    clientCall,     \* record of the last vision-client construction
    agent,          \* the AsteroidAgent object: agent_id, fallback_agent_id
    execHist,       \* history of the object's _execute_agent calls
    listing,        \* the create_listing call in progress (its locals)
    statusScript,   \* statuses the listing service gives to successive checks
    clock,          \* time.time(), in ticks
    variant,        \* which orchestrator runs: "wake" (main.py), "kbd" (src/main.py)
    pc,             \* position of main()
    conversation,   \* global `conversation`
    convai_active,  \* local flag of main()
    mic_stream,     \* global `mic_stream` (wake-word orchestrator)
    elevenlabs,     \* the voice client of main(), once created
    hotword_detector, \* the HotwordDetector of main(), once created
    exit_code,      \* status given to sys.exit, once called
    missing,        \* the list check_environment printed
    sessions,       \* every conversation handle created so far and its state
    mainHist,       \* counters of what the loop did
    camCall,        \* the last call on the camera object and what it gave
    camHist,        \* counters of what the camera object did to the device
    visionCall      \* the last method call on a vision client and what it gave

mainVars == <<variant, pc, conversation, convai_active, mic_stream, elevenlabs,
              hotword_detector, exit_code, missing, sessions, mainHist>>

cameraVars == <<camCall, camHist>>

vars == <<env, camera, recognizers, toolCall, b64Call, genai_key, clientCall,
          agent, execHist, listing, statusScript, clock, mainVars, cameraVars, visionCall>>

(* What each component leaves alone. *)
listingVars == <<agent, execHist, listing, statusScript, clock>>
outsideB64 == <<env, camera, recognizers, toolCall, genai_key, clientCall, listingVars,
                mainVars, cameraVars, visionCall>>
outsideClient == <<camera, toolCall, b64Call, listingVars, mainVars, cameraVars, visionCall>>
outsideTools == <<b64Call, clientCall, listingVars, mainVars, cameraVars, visionCall>>
outsideExec == <<camera, recognizers, toolCall, b64Call, genai_key, clientCall,
                 listing, statusScript, clock, mainVars, cameraVars, visionCall>>
outsidePoll == <<env, camera, recognizers, toolCall, b64Call, genai_key, clientCall,
                 mainVars, cameraVars, visionCall>>
outsideMainCam == <<recognizers, toolCall, b64Call, genai_key, clientCall, listingVars,
                    visionCall>>
outsideMain == <<outsideMainCam, cameraVars>>
outsideCamera == <<env, recognizers, toolCall, b64Call, genai_key, clientCall,
                   listingVars, mainVars, visionCall>>
outsideConvenience == <<env, camera, toolCall, b64Call, clientCall, listingVars,
                        mainVars, cameraVars>>
outsideVision == <<env, camera, recognizers, toolCall, b64Call, genai_key, clientCall,
                   listingVars, mainVars, cameraVars>>

(* Python's Optional[T]: None is Nothing, a value x is Just(x).             *)
Nothing == [has |-> FALSE]
Just(x) == [has |-> TRUE, val |-> x]

----------------------------------------------------------------------------
(* Bounds of the model *)

MaxImageLen == 3        \* longest captured image, in bytes

(* Byte values used for image content (a sample of 0..255 that exercises   *)
(* every bit position of the base64 regrouping).                           *)
ByteVals == {0, 1, 77, 128, 255}

RECURSIVE SeqsUpTo(_, _)
SeqsUpTo(S, n) ==
    IF n = 0 THEN {<<>>}
    ELSE LET shorter == SeqsUpTo(S, n - 1)
         IN  shorter \cup {Append(s, x) : s \in {t \in shorter : Len(t) = n - 1}, x \in S}

(* camera/base.py:20 "JPEG image data, or None if capture failed": a       *)
(* successful capture is a non-empty byte string (an encoded JPEG).        *)
Images == SeqsUpTo(ByteVals, MaxImageLen) \ {<<>>}
CaptureOutcomes == {Just(b) : b \in Images} \cup {Nothing}

----------------------------------------------------------------------------
(* Python strings that are assembled by f-strings: a text is the sequence  *)
(* of its non-empty pieces, so the empty string is <<>>.                   *)

Str(s) == IF s = "" THEN <<>> ELSE <<s>>
Fmt(prefix, text) == Str(prefix) \o text
NonEmptyText(t) == Len(t) > 0
Range(f) == {f[i] : i \in DOMAIN f}

(* Truthiness of an Optional[str]: None and "" are falsy.                   *)
Truthy(o) == o.has /\ o.val # ""
(* Python's `a or b` on Optional[str] values.                              *)
PyOr(a, b) == IF Truthy(a) THEN a ELSE b

getenv(name) == IF name \in DOMAIN env THEN env[name] ELSE Nothing

----------------------------------------------------------------------------
(* base64: symbols 0..63 are the alphabet, Pad is '='.                     *)

Pad == 64

RECURSIVE b64encode(_)
b64encode(b) ==
    IF Len(b) = 0 THEN <<>>
    ELSE IF Len(b) = 1 THEN
        << b[1] \div 4, (b[1] % 4) * 16, Pad, Pad >>
    ELSE IF Len(b) = 2 THEN
        << b[1] \div 4, (b[1] % 4) * 16 + (b[2] \div 16), (b[2] % 16) * 4, Pad >>
    ELSE
        << b[1] \div 4,
           (b[1] % 4) * 16 + (b[2] \div 16),
           (b[2] % 16) * 4 + (b[3] \div 64),
           b[3] % 64 >> \o b64encode(SubSeq(b, 4, Len(b)))

(* A character outside the base64 alphabet (and not the padding sign).     *)
Junk == 65

(* The bytes a quad of 2, 3 or 4 six-bit symbols stands for.               *)
quad_bytes(q) ==
    IF Len(q) < 2 THEN <<>>
    ELSE << q[1] * 4 + (q[2] \div 16) >>
         \o (IF Len(q) >= 3 THEN << (q[2] % 16) * 16 + (q[3] \div 4) >> ELSE <<>>)
         \o (IF Len(q) = 4 THEN << (q[3] % 4) * 64 + q[4] >> ELSE <<>>)

(* binascii.a2b_base64, not strict: characters outside the alphabet are    *)
(* skipped, a padding sign counts only after two symbols of a quad and     *)
(* ends the input once the quad is complete, and input that ends inside a  *)
(* quad raises binascii.Error (Nothing).                                   *)
RECURSIVE a2b_base64(_, _, _, _)
a2b_base64(s, quad, pads, out) ==
    IF Len(s) = 0
    THEN IF Len(quad) = 0 THEN Just(out) ELSE Nothing
    ELSE LET c == Head(s)
             rest == Tail(s)
         IN  IF c = Pad
             THEN IF Len(quad) >= 2
                  THEN IF Len(quad) + pads + 1 >= 4
                       THEN Just(out \o quad_bytes(quad))
                       ELSE a2b_base64(rest, quad, pads + 1, out)
                  ELSE a2b_base64(rest, quad, pads, out)
             ELSE IF c = Junk
             THEN a2b_base64(rest, quad, pads, out)
             ELSE IF Len(quad) = 3
             THEN a2b_base64(rest, <<>>, 0, out \o quad_bytes(Append(quad, c)))
             ELSE a2b_base64(rest, Append(quad, c), 0, out)

(* base64.b64decode(s): Just(bytes), or Nothing when it raises.            *)
b64decode(s) == a2b_base64(s, <<>>, 0, <<>>)

-----------------------------------------------------------------------------
(***************************************************************************)
(* The camera backends: USBCamera (usb_camera.py) and PiCamera             *)
(* (pi_camera.py).  A camera object is a record; the fields of the other   *)
(* class stay at their initial value.                                      *)
(***************************************************************************)
(* USBCamera.__init__ *)
USBCamera(device_index) ==
    [kind |-> "usb", device_index |-> device_index, _cap |-> Nothing,
     _available |-> Nothing]
(* PiCamera.__init__ *)
PiCamera ==
    [kind |-> "pi", device_index |-> 0, _cap |-> Nothing, _available |-> Nothing]

(* cv2.VideoCapture(device_index): a new handle, opened or not *)
VideoCapture(device_ok, hist) == [opened |-> device_ok, handle |-> hist.opens + 1]

(* USBCamera._get_capture: the handle is kept while it reports isOpened(), *)
(* otherwise a new VideoCapture replaces it.  still_open: what isOpened()  *)
(* of the kept handle says now; device_ok: whether a new one opens.        *)
(* hist.open: the handles that hold the device open; a kept handle that   *)
(* no longer reports isOpened() has lost it.                               *)
still_held(cam, hist, still_open) ==
    IF cam._cap.has /\ ~(cam._cap.val.opened /\ still_open)
    THEN hist.open \ {cam._cap.val.handle}
    ELSE hist.open
(* the variant that opens the device on every call *)
_get_capture_always_opens(cam, hist, still_open, device_ok) ==
    [cam |-> [cam EXCEPT !._cap = Just(VideoCapture(device_ok, hist))],
     hist |-> [hist EXCEPT !.opens = @ + 1,
                           !.open = still_held(cam, hist, still_open)
                                    \cup (IF device_ok THEN {hist.opens + 1} ELSE {})]]
_get_capture(cam, hist, still_open, device_ok) ==
    IF cam._cap.has /\ cam._cap.val.opened /\ still_open
    THEN [cam |-> cam, hist |-> hist]
    ELSE [cam |-> [cam EXCEPT !._cap = Just(VideoCapture(device_ok, hist))],
          hist |-> [hist EXCEPT !.opens = @ + 1,
                                !.open = still_held(cam, hist, still_open)
                                         \cup (IF device_ok THEN {hist.opens + 1} ELSE {})]]

(* USBCamera.is_available *)
usb_is_available(cam, hist, still_open, device_ok) ==
    LET g == _get_capture(cam, hist, still_open, device_ok)
    IN  [cam |-> g.cam, hist |-> g.hist, raised |-> FALSE,
         returned |-> g.cam._cap.val.opened, grabs |-> 0]

(* the variant that flushes three frames *)
usb_capture_three_grabs(cam, hist, still_open, device_ok, frame, encoded) ==
    LET g == _get_capture(cam, hist, still_open, device_ok)
    IN  IF ~g.cam._cap.val.opened
        THEN [cam |-> g.cam, hist |-> g.hist, raised |-> FALSE,
              returned |-> Nothing, grabs |-> 0, frame_no |-> 0]
        ELSE [cam |-> g.cam, hist |-> g.hist, raised |-> FALSE,
              returned |-> IF frame.has /\ encoded THEN frame ELSE Nothing,
              grabs |-> 3, frame_no |-> 3 + 1]
(* USBCamera.capture: five grabs, then read and JPEG encoding; frame is    *)
(* Nothing when read() gives no frame, encoded when imencode fails.  Each  *)
(* grab() and the read() take the next frame of the device: frame_no is    *)
(* the number, counted from the start of the call, of the frame read.      *)
usb_capture(cam, hist, still_open, device_ok, frame, encoded) ==
    LET g == _get_capture(cam, hist, still_open, device_ok)
    IN  IF ~g.cam._cap.val.opened
        THEN [cam |-> g.cam, hist |-> g.hist, raised |-> FALSE,
              returned |-> Nothing, grabs |-> 0, frame_no |-> 0]
        ELSE [cam |-> g.cam, hist |-> g.hist, raised |-> FALSE,
              returned |-> IF frame.has /\ encoded THEN frame ELSE Nothing,
              grabs |-> 5, frame_no |-> 5 + 1]

(* the variant that releases the handle and keeps the reference *)
usb_release_keep_reference(cam, hist) ==
    IF cam._cap.has
    THEN [cam |-> cam,
          hist |-> [hist EXCEPT !.releases = @ + 1, !.open = @ \ {cam._cap.val.handle}],
          raised |-> FALSE]
    ELSE [cam |-> cam, hist |-> hist, raised |-> FALSE]
(* USBCamera.release *)
usb_release(cam, hist) ==
    IF cam._cap.has
    THEN [cam |-> [cam EXCEPT !._cap = Nothing],
          hist |-> [hist EXCEPT !.releases = @ + 1, !.open = @ \ {cam._cap.val.handle}],
          raised |-> FALSE]
    ELSE [cam |-> cam, hist |-> hist, raised |-> FALSE]

(* PiCamera.release: pass *)
pi_release(cam, hist) == [cam |-> cam, hist |-> hist, raised |-> FALSE]

(* camera.release() of either backend *)
release(cam, hist) ==
    IF cam.kind = "usb" THEN usb_release(cam, hist) ELSE pi_release(cam, hist)

(* A whitespace character of a subprocess output (outside the alphabet).   *)
Newline == 66
RECURSIVE lstrip_output(_)
lstrip_output(o) ==
    IF Len(o) > 0 /\ Head(o) = Newline THEN lstrip_output(Tail(o)) ELSE o
RECURSIVE rstrip_output(_)
rstrip_output(o) ==
    IF Len(o) > 0 /\ o[Len(o)] = Newline
    THEN rstrip_output(SubSeq(o, 1, Len(o) - 1)) ELSE o
(* result.stdout.strip() *)
strip_output(o) == rstrip_output(lstrip_output(o))

(* What one subprocess.run gives: an exit (return code and output), a      *)
(* TimeoutExpired, or an OSError such as a missing interpreter.            *)
ProbeOutcomes == {"ok", "nonzero", "raise"}
ProbePairs == { <<"ok", "ok">>, <<"nonzero", "ok">>, <<"raise", "nonzero">>,
                <<"raise", "raise">> }
CheckResults ==
    [kind : {"exit"}, returncode : {0, 1}, ok_in_stdout : BOOLEAN]
    \cup [kind : {"timeout", "oserror"}, returncode : {1}, ok_in_stdout : {FALSE}]
PiStdouts ==
    { <<>>, <<Newline>>, <<Junk, Junk>>, <<19, 4, 11>>,
      b64encode(<<77>>) \o <<Newline>>, b64encode(<<1, 255>>) \o <<Newline>> }
CaptureResults ==
    [kind : {"exit"}, returncode : {0, 1}, stdout : PiStdouts]
    \cup [kind : {"timeout", "oserror"}, returncode : {1}, stdout : {<<>>}]

(* PiCamera._get_system_python: the first candidate whose import probe     *)
(* exits 0 (a probe that raises is skipped), else the fallback; runs: the  *)
(* probe subprocesses it started                                           *)
_get_system_python(p1, p2) ==
    IF p1 = "ok" THEN [python |-> "/usr/bin/python3", runs |-> 1]
    ELSE IF p2 = "ok" THEN [python |-> "/usr/bin/python", runs |-> 2]
    ELSE [python |-> "/usr/bin/python3", runs |-> 2]

(* the variant that probes again whatever _available holds *)
pi_is_available_uncached(cam, hist, p1, p2, r) ==
    LET py == _get_system_python(p1, p2)
        a == r.kind = "exit" /\ r.returncode = 0 /\ r.ok_in_stdout
    IN  [cam |-> [cam EXCEPT !._available = Just(a)],
         hist |-> [hist EXCEPT !.runs = @ + py.runs + 1, !.checks = @ + 1],
         raised |-> FALSE, returned |-> a, runs |-> py.runs + 1]
(* the variant that stores only a successful probe *)
pi_is_available_failures_unstored(cam, hist, p1, p2, r) ==
    IF cam._available = Just(TRUE)
    THEN [cam |-> cam, hist |-> hist, raised |-> FALSE,
          returned |-> cam._available.val, runs |-> 0]
    ELSE LET py == _get_system_python(p1, p2)
             a == r.kind = "exit" /\ r.returncode = 0 /\ r.ok_in_stdout
         IN  [cam |-> [cam EXCEPT !._available = IF a THEN Just(TRUE) ELSE Nothing],
              hist |-> [hist EXCEPT !.runs = @ + py.runs + 1, !.checks = @ + 1],
              raised |-> FALSE, returned |-> a, runs |-> py.runs + 1]
(* PiCamera.is_available *)
pi_is_available(cam, hist, p1, p2, r) ==
    IF cam._available.has
    THEN [cam |-> cam, hist |-> hist, raised |-> FALSE,
          returned |-> cam._available.val, runs |-> 0]
    ELSE LET py == _get_system_python(p1, p2)
             a == r.kind = "exit" /\ r.returncode = 0 /\ r.ok_in_stdout
         IN  [cam |-> [cam EXCEPT !._available = Just(a)],
              hist |-> [hist EXCEPT !.runs = @ + py.runs + 1, !.checks = @ + 1],
              raised |-> FALSE, returned |-> a, runs |-> py.runs + 1]

(* the variant without the handler for a failing b64decode *)
pi_capture_decode_unguarded(cam, hist, p1, p2, r) ==
    LET py == _get_system_python(p1, p2)
        image_b64 == strip_output(r.stdout)
        failed == r.kind # "exit" \/ r.returncode # 0 \/ Len(image_b64) = 0
    IN  [cam |-> cam, hist |-> [hist EXCEPT !.runs = @ + py.runs + 1],
         raised |-> ~failed /\ ~b64decode(image_b64).has,
         returned |-> IF failed THEN Nothing ELSE b64decode(image_b64),
         runs |-> py.runs + 1]
(* PiCamera.capture *)
pi_capture(cam, hist, p1, p2, r) ==
    LET py == _get_system_python(p1, p2)
        image_b64 == strip_output(r.stdout)
    IN  [cam |-> cam, hist |-> [hist EXCEPT !.runs = @ + py.runs + 1],
         raised |-> FALSE,
         returned |-> IF r.kind # "exit" \/ r.returncode # 0 \/ Len(image_b64) = 0
                      THEN Nothing
                      ELSE b64decode(image_b64),
         runs |-> py.runs + 1]

(* The listing client before it is constructed and used.                   *)
NoAgent == [constructed |-> FALSE]
NoExec == [calls |-> 0]
NoListing == [pc |-> "idle"]
(* No call has been made yet. *)
NoCall == [called |-> FALSE]
NoCamHist == [calls |-> 0, opens |-> 0, releases |-> 0, runs |-> 0, checks |-> 0,
              open |-> {}]
NoHist == [activations |-> 0, matches |-> 0, retriggered |-> FALSE,
           suppressed |-> FALSE, last |-> "none", cameras |-> 0,
           camera_error |-> Nothing, key |-> Nothing,
           interrupt |-> [handled |-> FALSE]]
MainIdle ==
    /\ variant = "wake"
    /\ pc = "not_started"
    /\ conversation = Nothing
    /\ convai_active = FALSE
    /\ mic_stream = Nothing
    /\ elevenlabs = Nothing
    /\ hotword_detector = Nothing
    /\ exit_code = Nothing
    /\ missing = <<>>
    /\ sessions = <<>>
    /\ mainHist = NoHist
    /\ camCall = NoCall
    /\ camHist = NoCamHist
    /\ visionCall = NoCall

ListingIdle ==
    /\ agent = NoAgent
    /\ execHist = NoExec
    /\ listing = NoListing
    /\ statusScript = <<>>
    /\ clock = 0
    /\ MainIdle


----------------------------------------------------------------------------
(* Vision analysis clients: CashRecognizer, PackagingReader,               *)
(* ItemRecognizer, VisualAnalyzer (identical constructors).                *)

VisionClasses == {"CashRecognizer", "PackagingReader", "ItemRecognizer", "VisualAnalyzer"}

ApiKeyArgs == {Nothing, Just(""), Just("k1"), Just("k2")}
EnvKeyValues == {Nothing, Just(""), Just("e1"), Just("e2")}

MissingKeyError ==
    [type |-> "ValueError",
     msg |-> <<"Google API key required. Set ", "GOOGLE_API_KEY", " environment variable.">>]

(* self.api_key = api_key or os.getenv("GOOGLE_API_KEY") *)
resolve_api_key_env_first(api_key) == PyOr(getenv("GOOGLE_API_KEY"), api_key)

resolve_api_key(api_key) == PyOr(api_key, getenv("GOOGLE_API_KEY"))

(* __init__: outcome of constructing a client with the given api_key       *)
(* argument: the exception raised, the object built, the key handed to     *)
(* genai.configure, and whether a GenerativeModel was created.             *)
client_init(api_key) ==
    LET key == resolve_api_key(api_key)
    IN  IF ~Truthy(key)
        THEN [raised |-> Just(MissingKeyError), object |-> Nothing,
              configure |-> Nothing, model |-> FALSE]
        ELSE [raised |-> Nothing, object |-> Just([api_key |-> key.val]),
              configure |-> key, model |-> TRUE]

ConstructClient ==
    /\ \E cls \in VisionClasses, api_key \in ApiKeyArgs :
          LET r == client_init(api_key)
          IN  /\ clientCall' = [called |-> TRUE, cls |-> cls, api_key |-> api_key,
                                raised |-> r.raised, object |-> r.object,
                                configure |-> r.configure, model |-> r.model]
              /\ genai_key' = IF r.configure.has THEN r.configure ELSE genai_key
    /\ UNCHANGED <<env, recognizers>>
    /\ UNCHANGED outsideClient

(* The vision modules and the class each one's global instance belongs to  *)
(* (_recognizer in cash_recognition / item_recognition, _reader in         *)
(* packaging_reader, _analyzer in analysis).                               *)
VisionModules == {"cash_recognition", "packaging_reader", "item_recognition", "analysis"}

NoRecognizers == [m \in VisionModules |-> Nothing]

(* get_recognizer / get_reader / get_analyzer: create the module's global  *)
(* instance on first use, with no explicit key; a constructor exception    *)
(* propagates and leaves the global None.                                  *)
get_recognizer(mod) ==
    IF recognizers[mod].has
    THEN [raised |-> Nothing, object |-> recognizers[mod],
          recognizers |-> recognizers, genai_key |-> genai_key]
    ELSE LET r == client_init(Nothing)
         IN  [raised |-> r.raised, object |-> r.object,
              recognizers |-> [recognizers EXCEPT ![mod] = r.object],
              genai_key |-> IF r.configure.has THEN r.configure ELSE genai_key]

GetRecognizer ==
    /\ \E mod \in VisionModules :
          LET r == get_recognizer(mod)
          IN  /\ recognizers' = r.recognizers
              /\ genai_key' = r.genai_key
    /\ UNCHANGED <<env, clientCall>>
    /\ UNCHANGED outsideClient

InitClient ==
    /\ env \in [{"GOOGLE_API_KEY"} -> EnvKeyValues]
    /\ camera = Nothing
    /\ recognizers = NoRecognizers
    /\ toolCall = NoCall
    /\ b64Call = NoCall
    /\ genai_key = Nothing
    /\ clientCall = NoCall
    /\ ListingIdle

NextClient == ConstructClient \/ GetRecognizer
SpecClient == InitClient /\ [][NextClient]_vars

(* C8: with no explicit api_key and GOOGLE_API_KEY unset or empty, the     *)
(* constructor raises a ValueError whose message names GOOGLE_API_KEY and  *)
(* neither an object nor a remote model is created and genai is not        *)
(* configured; a given (non-empty) explicit api_key is the key used,       *)
(* whatever the environment holds.                                         *)
C8_MissingKeyRaises ==
    clientCall.called =>
        /\ (~Truthy(clientCall.api_key) /\ ~Truthy(getenv("GOOGLE_API_KEY"))) =>
              /\ clientCall.raised.has
              /\ clientCall.raised.val.type = "ValueError"
              /\ "GOOGLE_API_KEY" \in Range(clientCall.raised.val.msg)
              /\ ~clientCall.object.has
              /\ ~clientCall.model
              /\ ~clientCall.configure.has
        /\ Truthy(clientCall.api_key) =>
              /\ ~clientCall.raised.has
              /\ clientCall.object.has
              /\ clientCall.object.val.api_key = clientCall.api_key.val
              /\ clientCall.configure = clientCall.api_key

(* Both cases happen: a construction that raised for a missing key, and    *)
(* (in C8_WitnessExplicit) an explicit key that overrode a set variable.   *)
C8_Witness ==
    /\ clientCall.called
    /\ ~clientCall.api_key.has
    /\ getenv("GOOGLE_API_KEY") = Just("")
    /\ clientCall.raised.has

C8_WitnessExplicit ==
    /\ clientCall.called
    /\ clientCall.api_key = Just("k1")
    /\ getenv("GOOGLE_API_KEY") = Just("e1")
    /\ clientCall.object.has

----------------------------------------------------------------------------
(* Vision analysis calls and the convenience functions identify_cash,      *)
(* read_packaging, identify_item, describe_image.                          *)

(* What model.generate_content does: returns a response whose .text is     *)
(* `text` (ok), or raises an exception whose str() is `text`.              *)
ModelTexts == { <<>>,
                <<"I see a twenty pound note.">>,
                <<"Sorry, I couldn't capture an image. Please check the camera.">> }
ErrorTexts == { <<>>, <<"quota exceeded">> }
RemoteOutcomes == {[ok |-> TRUE, text |-> t] : t \in ModelTexts}
                    \cup {[ok |-> FALSE, text |-> t] : t \in ErrorTexts}

(* open(filepath, 'rb').read(): the content, FileNotFoundError, or another *)
(* exception.                                                              *)
FileOutcomes == {[kind |-> "ok", data |-> <<77>>, text |-> <<>>],
                 [kind |-> "notfound", data |-> <<>>, text |-> <<>>],
                 [kind |-> "error", data |-> <<>>, text |-> <<"Permission denied">>]}

AnalyzeApology(mod) ==
    IF mod = "packaging_reader"
    THEN "Sorry, I had trouble reading the packaging: "
    ELSE "Sorry, I had trouble analyzing the image: "

(* analyze_image_bytes / describe_image_bytes *)
analyze_image_bytes(mod, image_bytes, remote) ==
    [text |-> IF remote.ok THEN remote.text
              ELSE Fmt(AnalyzeApology(mod), remote.text),
     calls |-> << [api |-> "generate_content", module |-> mod,
                   data |-> b64encode(image_bytes)] >>]

(* analyze_image_file / describe_image_file *)
analyze_image_file(mod, filepath, file, remote) ==
    IF file.kind = "ok" THEN analyze_image_bytes(mod, file.data, remote)
    ELSE IF file.kind = "notfound"
    THEN [text |-> <<"Sorry, I couldn't find the image file: ", filepath>>, calls |-> <<>>]
    ELSE [text |-> Fmt("Sorry, I had trouble reading the image: ", file.text), calls |-> <<>>]

(* the variant that prefers image_bytes to the camera *)
convenience_bytes_first(mod, image_bytes, image_path, cam, remote, file) ==
    LET g == get_recognizer(mod)
        bytes == IF image_bytes.has THEN image_bytes ELSE IF cam.has THEN cam.val ELSE image_bytes
        r == IF ~image_bytes.has /\ cam.has /\ ~cam.val.has
             THEN [text |-> <<"Sorry, I couldn't capture an image from the camera. Please check the camera connection.">>,
                   calls |-> <<>>]
             ELSE IF bytes.has THEN analyze_image_bytes(mod, bytes.val, remote)
             ELSE IF image_path.has THEN analyze_image_file(mod, image_path.val, file, remote)
             ELSE [text |-> <<"No image provided. Please provide an image to analyze.">>,
                   calls |-> <<>>]
    IN  IF g.raised.has
        THEN [raised |-> g.raised, text |-> Nothing, calls |-> <<>>,
              recognizers |-> g.recognizers, genai_key |-> g.genai_key]
        ELSE [raised |-> Nothing, text |-> Just(r.text), calls |-> r.calls,
              recognizers |-> g.recognizers, genai_key |-> g.genai_key]

(* identify_cash(image_bytes, image_path, camera) and its siblings.        *)
(* cam is Nothing when no camera argument is given, else Just(the outcome  *)
(* of camera.capture()).  The result carries the exception raised (by      *)
(* get_recognizer), the text returned and the remote calls made.           *)
convenience(mod, image_bytes, image_path, cam, remote, file) ==
    LET g == get_recognizer(mod)
        bytes == IF cam.has THEN cam.val ELSE image_bytes
        r == IF cam.has /\ ~cam.val.has
             THEN [text |-> <<"Sorry, I couldn't capture an image from the camera. Please check the camera connection.">>,
                   calls |-> <<>>]
             ELSE IF bytes.has THEN analyze_image_bytes(mod, bytes.val, remote)
             ELSE IF image_path.has THEN analyze_image_file(mod, image_path.val, file, remote)
             ELSE [text |-> <<"No image provided. Please provide an image to analyze.">>,
                   calls |-> <<>>]
    IN  IF g.raised.has
        THEN [raised |-> g.raised, text |-> Nothing, calls |-> <<>>,
              recognizers |-> g.recognizers, genai_key |-> g.genai_key]
        ELSE [raised |-> Nothing, text |-> Just(r.text), calls |-> r.calls,
              recognizers |-> g.recognizers, genai_key |-> g.genai_key]

identify_cash(image_bytes, image_path, cam, remote, file) ==
    convenience("cash_recognition", image_bytes, image_path, cam, remote, file)

read_packaging(image_bytes, image_path, cam, remote, file) ==
    convenience("packaging_reader", image_bytes, image_path, cam, remote, file)

identify_item(image_bytes, image_path, cam, remote, file) ==
    convenience("item_recognition", image_bytes, image_path, cam, remote, file)

describe_image(image_bytes, image_path, cam, remote, file) ==
    convenience("analysis", image_bytes, image_path, cam, remote, file)

----------------------------------------------------------------------------
(* Tool handlers of the two orchestrators: main.py (wake word, "wake") and *)
(* src/main.py (keyboard, "kbd").                                          *)

Variants == {"wake", "kbd"}
CameraKinds == {"usb", "pi"}

(* The parameters mapping handed over by the remote agent: None or a dict  *)
(* (a set of <<key, value>> pairs).                                        *)
ParamSets == { Nothing, Just({}), Just({<<"image_url", "http://img">>}),
               Just({<<"unexpected", "x">>}) }
dict_get(d, k) ==
    IF \E kv \in d : kv[1] = k THEN Just((CHOOSE kv \in d : kv[1] = k)[2]) ELSE Nothing

(* Images a tool invocation may capture. *)
ToolCaptureOutcomes == {c \in CaptureOutcomes : c.has => Len(c.val) = 1}

ImportErrorExc == [type |-> "ImportError", msg |-> <<"No module named 'google'">>]

(* A callee whose source is not part of the handler's module              *)
(* (geminiProductRecogniser, get_item_details_for_listing): it returns a   *)
(* value or raises.                                                        *)
ExternalOutcomes == {[ok |-> TRUE, text |-> t] : t \in ModelTexts}
                      \cup {[ok |-> FALSE, text |-> t] : t \in ErrorTexts}

NoAnalysis ==
    [raised |-> Nothing, text |-> Nothing, calls |-> <<>>,
     recognizers |-> recognizers, genai_key |-> genai_key]

(* `from tools.x import f` inside the handler's try block, then the call a *)
imported(imp, a) ==
    IF imp THEN a
    ELSE [NoAnalysis EXCEPT !.raised = Just(ImportErrorExc)]

external(name, ext) ==
    IF ext.ok
    THEN [NoAnalysis EXCEPT !.text = Just(ext.text), !.calls = << [api |-> name] >>]
    ELSE [NoAnalysis EXCEPT !.raised = Just([type |-> "Exception", msg |-> ext.text]),
                            !.calls = << [api |-> name] >>]

CameraUnavailable == <<"Sorry, the camera is not available. Please check the camera connection.">>
CaptureFailed == <<"Sorry, I couldn't capture an image. Please check the camera.">>

(* Body shared by identify_cash_tool, read_packaging_tool and              *)
(* identify_item_tool: camera check, capture, None check, then the         *)
(* analysis `a` inside try/except Exception.                               *)
tool_body_no_none_check(apology, cap, a) ==
    IF ~camera.has
    THEN [returned |-> CameraUnavailable, raised |-> FALSE, capture_attempted |-> FALSE,
          captured |-> Nothing, client_text |-> Nothing, calls |-> <<>>,
          caught |-> Nothing,
          recognizers |-> recognizers, genai_key |-> genai_key]
    ELSE [returned |-> IF a.raised.has THEN Fmt(apology, a.raised.val.msg) ELSE a.text.val,
          raised |-> FALSE, capture_attempted |-> TRUE,
          captured |-> cap, client_text |-> a.text, calls |-> a.calls,
          caught |-> a.raised,
          recognizers |-> a.recognizers, genai_key |-> a.genai_key]

tool_body_labelled(apology, cap, a) ==
    IF ~camera.has
    THEN [returned |-> CameraUnavailable, raised |-> FALSE, capture_attempted |-> FALSE,
          captured |-> Nothing, client_text |-> Nothing, calls |-> <<>>,
          caught |-> Nothing,
          recognizers |-> recognizers, genai_key |-> genai_key]
    ELSE IF ~cap.has
    THEN [returned |-> CaptureFailed, raised |-> FALSE, capture_attempted |-> TRUE,
          captured |-> Nothing, client_text |-> Nothing, calls |-> <<>>,
          caught |-> Nothing,
          recognizers |-> recognizers, genai_key |-> genai_key]
    ELSE [returned |-> IF a.raised.has THEN Fmt(apology, a.raised.val.msg)
                       ELSE Fmt("Result: ", a.text.val),
          raised |-> FALSE, capture_attempted |-> TRUE,
          captured |-> cap, client_text |-> a.text, calls |-> a.calls,
          caught |-> a.raised,
          recognizers |-> a.recognizers, genai_key |-> a.genai_key]

(* the variant without the try around the analysis *)
tool_body_unguarded(apology, cap, a) ==
    IF ~camera.has
    THEN [returned |-> CameraUnavailable, raised |-> FALSE, capture_attempted |-> FALSE,
          captured |-> Nothing, client_text |-> Nothing, calls |-> <<>>,
          caught |-> Nothing,
          recognizers |-> recognizers, genai_key |-> genai_key]
    ELSE IF ~cap.has
    THEN [returned |-> CaptureFailed, raised |-> FALSE, capture_attempted |-> TRUE,
          captured |-> Nothing, client_text |-> Nothing, calls |-> <<>>,
          caught |-> Nothing,
          recognizers |-> recognizers, genai_key |-> genai_key]
    ELSE [returned |-> IF a.raised.has THEN <<>> ELSE a.text.val,
          raised |-> a.raised.has, capture_attempted |-> TRUE,
          captured |-> cap, client_text |-> a.text, calls |-> a.calls,
          caught |-> a.raised,
          recognizers |-> a.recognizers, genai_key |-> a.genai_key]

tool_body(apology, cap, a) ==
    IF ~camera.has
    THEN [returned |-> CameraUnavailable, raised |-> FALSE, capture_attempted |-> FALSE,
          captured |-> Nothing, client_text |-> Nothing, calls |-> <<>>,
          caught |-> Nothing,
          recognizers |-> recognizers, genai_key |-> genai_key]
    ELSE IF ~cap.has
    THEN [returned |-> CaptureFailed, raised |-> FALSE, capture_attempted |-> TRUE,
          captured |-> Nothing, client_text |-> Nothing, calls |-> <<>>,
          caught |-> Nothing,
          recognizers |-> recognizers, genai_key |-> genai_key]
    ELSE [returned |-> IF a.raised.has THEN Fmt(apology, a.raised.val.msg) ELSE a.text.val,
          raised |-> FALSE, capture_attempted |-> TRUE,
          captured |-> cap, client_text |-> a.text, calls |-> a.calls,
          caught |-> a.raised,
          recognizers |-> a.recognizers, genai_key |-> a.genai_key]

(* identify_cash_tool: main.py calls tools.cash_recognition.identify_cash, *)
(* src/main.py calls tools.geminiProductRecogniser.geminiProductRecogniser *)
identify_cash_tool(orchestrator, cap, imp, remote, ext) ==
    tool_body("Sorry, I had trouble identifying the cash: ", cap,
              imported(imp,
                  IF orchestrator = "wake"
                  THEN identify_cash(cap, Nothing, Nothing, remote, CHOOSE f \in FileOutcomes : TRUE)
                  ELSE external("geminiProductRecogniser", ext)))

read_packaging_tool(orchestrator, cap, imp, remote) ==
    tool_body("Sorry, I had trouble reading the packaging: ", cap,
              imported(imp,
                  read_packaging(cap, Nothing, Nothing, remote, CHOOSE f \in FileOutcomes : TRUE)))

identify_item_tool(cap, imp, remote) ==
    tool_body("Sorry, I had trouble identifying the item: ", cap,
              imported(imp,
                  identify_item(cap, Nothing, Nothing, remote, CHOOSE f \in FileOutcomes : TRUE)))

(* Outcome of agent.create_listing as create_ebay_listing sees it: a       *)
(* result dict with a status, or an exception.                             *)
ListingOutcomes ==
    {[kind |-> "status", status |-> st, execution_id |-> "exec-1", text |-> <<>>] :
        st \in {"completed", "failed", "timeout", "cancelled"}}
    \cup {[kind |-> k, status |-> "", execution_id |-> "", text |-> <<"boom">>] :
        k \in {"import_error", "exception"}}

create_ebay_listing_timeout_fails(title, outcome) ==
    IF outcome.kind = "import_error" THEN Fmt("Asteroid SDK not available: ", outcome.text)
    ELSE IF outcome.kind = "exception" THEN Fmt("Error creating listing: ", outcome.text)
    ELSE IF outcome.status = "completed"
    THEN <<"Successfully created eBay listing for '">> \o title \o <<"'">>
    ELSE IF outcome.status \in {"failed", "timeout"}
    THEN <<"Failed to create listing: ", "<result>">>
    ELSE <<"Listing creation status: ", outcome.status>>

(* create_ebay_listing (asteroid_agent.py): maps the outcome to a message  *)
(* and never raises.                                                       *)
create_ebay_listing(title, outcome) ==
    IF outcome.kind = "import_error" THEN Fmt("Asteroid SDK not available: ", outcome.text)
    ELSE IF outcome.kind = "exception" THEN Fmt("Error creating listing: ", outcome.text)
    ELSE IF outcome.status = "completed"
    THEN <<"Successfully created eBay listing for '">> \o title \o <<"'">>
    ELSE IF outcome.status = "failed" THEN <<"Failed to create listing: ", "<result>">>
    ELSE IF outcome.status = "timeout"
    THEN <<"Listing creation is taking longer than expected. Execution ID: ", outcome.execution_id>>
    ELSE <<"Listing creation status: ", outcome.status>>

(* What get_item_details_for_listing gives: a dict (with an optional       *)
(* "error" entry) or an exception.                                         *)
DetailsOutcomes ==
    {[ok |-> TRUE, error |-> e, title |-> <<"Blue jacket">>, text |-> <<>>] :
        e \in {Nothing, Just(""), Just("blurry")}}
    \cup {[ok |-> FALSE, error |-> Nothing, title |-> <<>>, text |-> <<"bad json">>]}

(* the variant that submits whatever the extraction reported *)
create_listing_tool_submits_anyway(image_url, cap, imp, details, imp2, submitted) ==
    LET base == [raised |-> FALSE, capture_attempted |-> TRUE, captured |-> cap,
                 client_text |-> Nothing, recognizers |-> recognizers,
                 genai_key |-> genai_key, returned |-> <<>>, calls |-> <<>>,
                 caught |-> Nothing]
        sdk_missing == <<"Sorry, the Asteroid SDK is not installed. Please run: pip install asteroid-odyssey">>
        extract == [api |-> "get_item_details_for_listing"]
        submit == [api |-> "create_ebay_listing", image_url |-> image_url]
    IN  IF ~camera.has
        THEN [base EXCEPT !.returned = CameraUnavailable, !.capture_attempted = FALSE,
                          !.captured = Nothing]
        ELSE IF ~cap.has
        THEN [base EXCEPT !.returned = CaptureFailed, !.captured = Nothing]
        ELSE IF ~imp
        THEN [base EXCEPT !.returned = sdk_missing, !.caught = Just(ImportErrorExc)]
        ELSE IF ~details.ok
        THEN [base EXCEPT !.returned = Fmt("Sorry, I had trouble creating the listing: ", details.text),
                          !.caught = Just([type |-> "Exception", msg |-> details.text]),
                          !.calls = <<extract>>]
        ELSE IF FALSE
        THEN [base EXCEPT !.returned = <<"Sorry, I had trouble analyzing the item: ", details.error.val>>,
                          !.calls = <<extract>>]
        ELSE IF ~imp2
        THEN [base EXCEPT !.returned = sdk_missing, !.caught = Just(ImportErrorExc),
                          !.calls = <<extract>>]
        ELSE [base EXCEPT !.returned = create_ebay_listing(details.title, submitted),
                          !.client_text = Just(create_ebay_listing(details.title, submitted)),
                          !.calls = <<extract, submit>>]


(* create_listing_tool (src/main.py): capture, extract the item details,   *)
(* submit the listing; imp and imp2 are the two imports inside the try.    *)
create_listing_tool(image_url, cap, imp, details, imp2, submitted) ==
    LET base == [raised |-> FALSE, capture_attempted |-> TRUE, captured |-> cap,
                 client_text |-> Nothing, recognizers |-> recognizers,
                 genai_key |-> genai_key, returned |-> <<>>, calls |-> <<>>,
                 caught |-> Nothing]
        sdk_missing == <<"Sorry, the Asteroid SDK is not installed. Please run: pip install asteroid-odyssey">>
        extract == [api |-> "get_item_details_for_listing"]
        submit == [api |-> "create_ebay_listing", image_url |-> image_url]
    IN  IF ~camera.has
        THEN [base EXCEPT !.returned = CameraUnavailable, !.capture_attempted = FALSE,
                          !.captured = Nothing]
        ELSE IF ~cap.has
        THEN [base EXCEPT !.returned = CaptureFailed, !.captured = Nothing]
        ELSE IF ~imp
        THEN [base EXCEPT !.returned = sdk_missing, !.caught = Just(ImportErrorExc)]
        ELSE IF ~details.ok
        THEN [base EXCEPT !.returned = Fmt("Sorry, I had trouble creating the listing: ", details.text),
                          !.caught = Just([type |-> "Exception", msg |-> details.text]),
                          !.calls = <<extract>>]
        ELSE IF Truthy(details.error)
        THEN [base EXCEPT !.returned = <<"Sorry, I had trouble analyzing the item: ", details.error.val>>,
                          !.calls = <<extract>>]
        ELSE IF ~imp2
        THEN [base EXCEPT !.returned = sdk_missing, !.caught = Just(ImportErrorExc),
                          !.calls = <<extract>>]
        ELSE [base EXCEPT !.returned = create_ebay_listing(details.title, submitted),
                          !.client_text = Just(create_ebay_listing(details.title, submitted)),
                          !.calls = <<extract, submit>>]

(* The handler `tool` of orchestrator `orchestrator` ran with these parameters  *)
(* and inputs and produced r.                                              *)
Invoked(orchestrator, tool, parameters, remote, r) ==
    /\ toolCall = NoCall
    /\ toolCall' = [called |-> TRUE, orchestrator |-> orchestrator, tool |-> tool,
                    parameters |-> parameters, remote |-> remote,
                    capture_attempted |-> r.capture_attempted, captured |-> r.captured,
                    client_text |-> r.client_text, returned |-> r.returned,
                    raised |-> r.raised, calls |-> r.calls, caught |-> r.caught]
    /\ recognizers' = r.recognizers
    /\ genai_key' = r.genai_key
    /\ UNCHANGED <<env, camera>>
    /\ UNCHANGED outsideTools

identify_cash_tool_handler ==
    \E orchestrator \in Variants, parameters \in ParamSets, cap \in ToolCaptureOutcomes,
       imp \in BOOLEAN, remote \in RemoteOutcomes :
        Invoked(orchestrator, "identify_cash", parameters, remote,
                identify_cash_tool(orchestrator, cap, imp, remote, remote))

read_packaging_tool_handler ==
    \E orchestrator \in Variants, parameters \in ParamSets, cap \in ToolCaptureOutcomes,
       imp \in BOOLEAN, remote \in RemoteOutcomes :
        Invoked(orchestrator, "read_packaging", parameters, remote,
                read_packaging_tool(orchestrator, cap, imp, remote))

identify_item_tool_handler ==
    \E parameters \in ParamSets, cap \in ToolCaptureOutcomes,
       imp \in BOOLEAN, remote \in RemoteOutcomes :
        Invoked("kbd", "identify_item", parameters, remote,
                identify_item_tool(cap, imp, remote))

create_listing_tool_handler ==
    \E parameters \in ParamSets, cap \in ToolCaptureOutcomes, imp \in BOOLEAN,
       details \in DetailsOutcomes, imp2 \in BOOLEAN, submitted \in ListingOutcomes :
        LET image_url == IF parameters.has /\ parameters.val # {}
                         THEN dict_get(parameters.val, "image_url") ELSE Nothing
        IN  Invoked("kbd", "create_listing", parameters, details,
                    create_listing_tool(image_url, cap, imp, details, imp2, submitted))

(* The voice SDK takes the handler's return value. *)
ToolReturn ==
    /\ toolCall # NoCall
    /\ toolCall' = NoCall
    /\ UNCHANGED <<env, camera, recognizers, genai_key>>
    /\ UNCHANGED outsideTools

InitTools ==
    /\ env \in [{"GOOGLE_API_KEY"} -> {Nothing, Just(""), Just("e1")}]
    /\ camera \in {Nothing, Just(USBCamera(0)), Just(PiCamera)}
    /\ recognizers = NoRecognizers
    /\ toolCall = NoCall
    /\ b64Call = NoCall
    /\ genai_key = Nothing
    /\ clientCall = NoCall
    /\ ListingIdle

NextTools ==
    \/ identify_cash_tool_handler
    \/ read_packaging_tool_handler
    \/ identify_item_tool_handler
    \/ create_listing_tool_handler
    \/ ToolReturn

SpecTools == InitTools /\ [][NextTools]_vars

(* C1: whenever camera.capture() returns None, the handler (any of the     *)
(* four, in either orchestrator) returns the non-empty capture apology,    *)
(* does not raise, and has made no vision or listing call.                 *)
C1_CaptureFailureApology ==
    (toolCall.called /\ toolCall.capture_attempted /\ ~toolCall.captured.has) =>
        /\ NonEmptyText(toolCall.returned)
        /\ toolCall.returned = CaptureFailed
        /\ ~toolCall.raised
        /\ toolCall.calls = <<>>

(* create_listing (keyboard orchestrator) was invoked and its capture      *)
(* failed.                                                                 *)
C1_Witness ==
    /\ toolCall.called
    /\ toolCall.tool = "create_listing"
    /\ toolCall.capture_attempted
    /\ ~toolCall.captured.has
    /\ toolCall.returned = CaptureFailed

(* C2: in the wake-word orchestrator, when the capture gave image bytes    *)
(* and the banknote client returned a text, identify_cash's handler        *)
(* returns exactly that text, whatever the parameters; in particular the   *)
(* text of the remote model's response when the remote call succeeded.     *)
C2_CashTextUnchanged ==
    (/\ toolCall.called
     /\ toolCall.orchestrator = "wake"
     /\ toolCall.tool = "identify_cash"
     /\ toolCall.captured.has
     /\ toolCall.client_text.has) =>
        /\ toolCall.returned = toolCall.client_text.val
        /\ ~toolCall.raised
        /\ toolCall.remote.ok => toolCall.returned = toolCall.remote.text

(* The remote model answered "I see a twenty pound note." and the handler  *)
(* was called with an unexpected parameter.                                *)
C2_Witness ==
    /\ toolCall.called
    /\ toolCall.orchestrator = "wake"
    /\ toolCall.tool = "identify_cash"
    /\ toolCall.parameters = Just({<<"unexpected", "x">>})
    /\ toolCall.captured.has
    /\ toolCall.remote = [ok |-> TRUE, text |-> <<"I see a twenty pound note.">>]
    /\ toolCall.returned = <<"I see a twenty pound note.">>

----------------------------------------------------------------------------
(* Listing submission client: AsteroidAgent (asteroid_agent.py).           *)
(* Agent identifiers are strings, modelled as sequences of characters.     *)

MaxExecCalls == 3       \* _execute_agent calls followed on one object

Space == " "
Separator == <<" ", "-", " ">>

RECURSIVE lstrip(_)
lstrip(v) == IF Len(v) > 0 /\ v[1] = Space THEN lstrip(Tail(v)) ELSE v
RECURSIVE rstrip(_)
rstrip(v) == IF Len(v) > 0 /\ v[Len(v)] = Space THEN rstrip(SubSeq(v, 1, Len(v) - 1)) ELSE v
strip(v) == rstrip(lstrip(v))

(* Positions at which " - " occurs in v. *)
SeparatorAt(v) == {i \in 1..(Len(v) - 2) : SubSeq(v, i, i + 2) = Separator}
Max(S) == CHOOSE x \in S : \A y \in S : y <= x

(* _normalize_agent_id: None and "" are returned as they are; otherwise    *)
(* the part after the last " - " (or the whole value), stripped.           *)
_normalize_agent_id(value) ==
    IF ~value.has \/ Len(value.val) = 0 THEN value
    ELSE IF SeparatorAt(value.val) # {}
    THEN Just(strip(SubSeq(value.val, Max(SeparatorAt(value.val)) + 3, Len(value.val))))
    ELSE Just(strip(value.val))

TruthyId(o) == o.has /\ Len(o.val) > 0
IdOr(a, b) == IF TruthyId(a) THEN a ELSE b

(* Values of ASTEROID_AGENT_ID, AGENT_ID, AGENT_PROFILE_ID:                *)
(* unset, "a", "b", "X - b", " a ", " ".                                   *)
RawAgentIds == { Nothing, Just(<<"a">>), Just(<<"b">>),
                 Just(<<"X", " ", "-", " ", "b">>), Just(<<" ", "a", " ">>),
                 Just(<<" ">>) }

(* __init__: the first fallback candidate (AGENT_PROFILE_ID, then          *)
(* AGENT_ID) whose normalized value is non-empty and differs from agent_id *)
fallback_for(agent_id) ==
    LET c1 == _normalize_agent_id(getenv("AGENT_PROFILE_ID"))
        c2 == _normalize_agent_id(getenv("AGENT_ID"))
    IN  IF TruthyId(c1) /\ c1.val # agent_id THEN c1
        ELSE IF TruthyId(c2) /\ c2.val # agent_id THEN c2
        ELSE Nothing

(* AsteroidAgent.__init__(api_key=None, agent_id): the object built, or    *)
(* the exception raised.                                                   *)
asteroid_init(sdk, agent_id_arg) ==
    LET id == _normalize_agent_id(
                 IdOr(agent_id_arg,
                      IdOr(getenv("ASTEROID_AGENT_ID"),
                           IdOr(getenv("AGENT_ID"), getenv("AGENT_PROFILE_ID")))))
    IN  IF ~sdk THEN [constructed |-> FALSE, raised |-> "ImportError"]
        ELSE IF ~Truthy(getenv("ASTEROID_API_KEY"))
        THEN [constructed |-> FALSE, raised |-> "ValueError"]
        ELSE IF ~TruthyId(id) THEN [constructed |-> FALSE, raised |-> "ValueError"]
        ELSE [constructed |-> TRUE, agent_id |-> id.val,
              fallback_agent_id |-> fallback_for(id.val)]

(* Outcome of one agents_api.agent_execute_post call: a response, or an    *)
(* exception with an optional .status attribute and a str() that may       *)
(* contain "(403)".                                                        *)
PostOutcomes ==
    {[ok |-> TRUE, status |-> Nothing, text403 |-> FALSE]}
    \cup {[ok |-> FALSE, status |-> st, text403 |-> t] :
            st \in {Nothing, Just(403), Just(500)}, t \in BOOLEAN}

(* status = getattr(exc, "status", None); "(403)" in str(exc) counts only  *)
(* when there is no status attribute.                                      *)
is_403(o) == ~o.ok /\ (o.status = Just(403) \/ (~o.status.has /\ o.text403))

(* _execute_agent on the object ag, the first post having outcome o1 and   *)
(* the retry (when made) o2: the posts made (their agent ids, in order),   *)
(* whether the call raised, and the object's identifiers afterwards.       *)
_execute_agent_keep_fallback(ag, o1, o2) ==
    IF o1.ok
    THEN [posts |-> <<ag.agent_id>>, raised |-> FALSE, agent |-> ag]
    ELSE IF is_403(o1) /\ TruthyId(ag.fallback_agent_id)
    THEN [posts |-> <<ag.agent_id, ag.fallback_agent_id.val>>, raised |-> ~o2.ok,
          agent |-> IF o2.ok
                    THEN [ag EXCEPT !.agent_id = ag.fallback_agent_id.val,
                                    !.fallback_agent_id = Just(ag.agent_id)]
                    ELSE ag]
    ELSE [posts |-> <<ag.agent_id>>, raised |-> TRUE, agent |-> ag]

(* the variant that switches identifiers before the retry has returned *)
_execute_agent_switch_before_retry(ag, o1, o2) ==
    IF o1.ok
    THEN [posts |-> <<ag.agent_id>>, raised |-> FALSE, agent |-> ag]
    ELSE IF is_403(o1) /\ TruthyId(ag.fallback_agent_id)
    THEN [posts |-> <<ag.agent_id, ag.fallback_agent_id.val>>, raised |-> ~o2.ok,
          agent |-> [ag EXCEPT !.agent_id = ag.fallback_agent_id.val,
                               !.fallback_agent_id = Nothing]]
    ELSE [posts |-> <<ag.agent_id>>, raised |-> TRUE, agent |-> ag]

_execute_agent(ag, o1, o2) ==
    IF o1.ok
    THEN [posts |-> <<ag.agent_id>>, raised |-> FALSE, agent |-> ag]
    ELSE IF is_403(o1) /\ TruthyId(ag.fallback_agent_id)
    THEN [posts |-> <<ag.agent_id, ag.fallback_agent_id.val>>, raised |-> ~o2.ok,
          agent |-> IF o2.ok
                    THEN [ag EXCEPT !.agent_id = ag.fallback_agent_id.val,
                                    !.fallback_agent_id = Nothing]
                    ELSE ag]
    ELSE [posts |-> <<ag.agent_id>>, raised |-> TRUE, agent |-> ag]

(* get_agent() / AsteroidAgent(): construct the client from the            *)
(* environment.                                                            *)
AsteroidAgentInit ==
    /\ ~agent.constructed
    /\ execHist.calls = 0
    /\ \E sdk \in BOOLEAN, agent_id_arg \in {Nothing, Just(<<"b">>)} :
          agent' = asteroid_init(sdk, agent_id_arg)
    /\ agent' # agent
    /\ UNCHANGED <<env, execHist>>
    /\ UNCHANGED outsideExec

(* create_listing_async: one _execute_agent call on the object.  execHist  *)
(* keeps what the call did (last), and the alternate an earlier call       *)
(* retried against (retried) or committed to (committed).                  *)
create_listing_async ==
    /\ agent.constructed
    /\ execHist.calls < MaxExecCalls
    /\ \E o1 \in PostOutcomes, o2 \in PostOutcomes :
          LET r == _execute_agent(agent, o1, o2)
              retry == Len(r.posts) = 2
              prev == IF execHist.calls = 0
                      THEN [retried |-> Nothing, committed |-> Nothing]
                      ELSE [retried |-> execHist.retried, committed |-> execHist.committed]
          IN  /\ agent' = r.agent
              /\ execHist' =
                    [calls |-> execHist.calls + 1,
                     last |-> [agent_id |-> agent.agent_id,
                               fallback_agent_id |-> agent.fallback_agent_id,
                               rejected |-> is_403(o1),
                               first |-> o1, retry_ok |-> o2.ok,
                               posts |-> r.posts, raised |-> r.raised,
                               after_retry |-> prev.retried,
                               after_commit |-> prev.committed],
                     retried |-> IF retry /\ ~prev.retried.has
                                 THEN Just(r.posts[2]) ELSE prev.retried,
                     committed |-> IF retry /\ ~r.raised /\ ~prev.committed.has
                                   THEN Just(r.posts[2]) ELSE prev.committed]
    /\ UNCHANGED env
    /\ UNCHANGED outsideExec

InitExec ==
    /\ env \in {[ASTEROID_API_KEY |-> k, ASTEROID_AGENT_ID |-> a,
                  AGENT_ID |-> b, AGENT_PROFILE_ID |-> c] :
                    k \in {Nothing, Just("key")}, a \in RawAgentIds,
                    b \in RawAgentIds, c \in RawAgentIds}
    /\ camera = Nothing
    /\ recognizers = NoRecognizers
    /\ toolCall = NoCall
    /\ b64Call = NoCall
    /\ genai_key = Nothing
    /\ clientCall = NoCall
    /\ ListingIdle

NextExec == AsteroidAgentInit \/ create_listing_async
SpecExec == InitExec /\ [][NextExec]_vars

(* C5 as stated: a 403 rejection with an alternate configured is followed  *)
(* by exactly one retry, against the alternate, and every later            *)
(* _execute_agent call of the object posts to that alternate only.         *)
C5_Original ==
    execHist.calls > 0 =>
        /\ (execHist.last.rejected /\ TruthyId(execHist.last.fallback_agent_id)) =>
              execHist.last.posts =
                  <<execHist.last.agent_id, execHist.last.fallback_agent_id.val>>
        /\ execHist.last.after_retry.has =>
              execHist.last.posts = <<execHist.last.after_retry.val>>

(* C5 (amended): a 403 rejection with an alternate configured is followed  *)
(* by exactly one retry, against the alternate, and no retry is made in    *)
(* any other case; once a retry has succeeded, every later _execute_agent  *)
(* call of the object posts once, to that alternate, with no retry.        *)
C5_FallbackCommit ==
    execHist.calls > 0 =>
        /\ (execHist.last.rejected /\ TruthyId(execHist.last.fallback_agent_id)) =>
              execHist.last.posts =
                  <<execHist.last.agent_id, execHist.last.fallback_agent_id.val>>
        /\ ~(execHist.last.rejected /\ TruthyId(execHist.last.fallback_agent_id)) =>
              execHist.last.posts = <<execHist.last.agent_id>>
        /\ execHist.last.after_commit.has =>
              execHist.last.posts = <<execHist.last.after_commit.val>>

(* A call after a successful retry was itself rejected with a 403 and went *)
(* to the alternate only.                                                  *)
C5_Witness ==
    /\ execHist.calls > 1
    /\ execHist.last.after_commit.has
    /\ execHist.last.rejected
    /\ execHist.last.raised
    /\ execHist.last.posts = <<execHist.last.after_commit.val>>

(* C29: _execute_agent changes agent_id and fallback_agent_id only when a   *)
(* fallback retry succeeds: agent_id becomes the alternate and the         *)
(* alternate is cleared.  After a successful first post, after an error    *)
(* that is not a 403, after a 403 with no alternate configured, and after  *)
(* a failed retry both identifiers are as before; in the three error       *)
(* cases the exception propagates and no further post is made.             *)
Claim403(o) ==
    /\ ~o.ok
    /\ o \in {[ok |-> FALSE, status |-> Just(403), text403 |-> TRUE],
              [ok |-> FALSE, status |-> Just(403), text403 |-> FALSE],
              [ok |-> FALSE, status |-> Nothing, text403 |-> TRUE]}
ClaimHasAlternate == agent.fallback_agent_id.has /\ agent.fallback_agent_id.val # <<>>
ClaimIdsKept ==
    /\ agent'.agent_id = agent.agent_id
    /\ agent'.fallback_agent_id = agent.fallback_agent_id
C29_IdentifiersFrame ==
    [][(agent.constructed /\ execHist'.calls = execHist.calls + 1) =>
         LET l == execHist'.last
             retried == Claim403(l.first) /\ ClaimHasAlternate
         IN  /\ agent'.constructed
             /\ l.first.ok =>
                   ClaimIdsKept /\ ~l.raised /\ l.posts = <<agent.agent_id>>
             /\ (~l.first.ok /\ ~retried) =>
                   ClaimIdsKept /\ l.raised /\ l.posts = <<agent.agent_id>>
             /\ (retried /\ ~l.retry_ok) =>
                   /\ ClaimIdsKept
                   /\ l.raised
                   /\ l.posts = <<agent.agent_id, agent.fallback_agent_id.val>>
             /\ (retried /\ l.retry_ok) =>
                   /\ agent'.agent_id = agent.fallback_agent_id.val
                   /\ agent'.fallback_agent_id = Nothing
                   /\ ~l.raised
                   /\ l.posts = <<agent.agent_id, agent.fallback_agent_id.val>>
      ]_vars

(* A retry against the alternate failed and the object kept both           *)
(* identifiers.                                                            *)
C29_Witness ==
    /\ execHist.calls > 0
    /\ execHist.last.first = [ok |-> FALSE, status |-> Nothing, text403 |-> TRUE]
    /\ Len(execHist.last.posts) = 2
    /\ ~execHist.last.retry_ok
    /\ execHist.last.raised
    /\ agent.agent_id = execHist.last.agent_id
    /\ agent.fallback_agent_id = execHist.last.fallback_agent_id
    /\ agent.fallback_agent_id.has

(* A retry succeeded and the object switched to the alternate.             *)
C29_WitnessSwitched ==
    /\ execHist.calls > 0
    /\ execHist.last.first.status = Just(403)
    /\ execHist.last.retry_ok
    /\ execHist.last.fallback_agent_id.has
    /\ agent.agent_id = execHist.last.fallback_agent_id.val
    /\ agent.agent_id # execHist.last.agent_id
    /\ agent.fallback_agent_id = Nothing

----------------------------------------------------------------------------
(* AsteroidAgent.create_listing: execute the agent, then poll the          *)
(* execution status until it is terminal or max_wait has elapsed.          *)

MaxWaitBound == 3       \* largest max_wait tried, in ticks
MaxCallDelay == 1       \* longest duration of one remote call, in ticks
PollIntervals == {1, 2} \* poll_interval values tried, in ticks (default 2.0 s)

(* What execution_get gives: a status, or an exception.                    *)
Raises == "<raises>"
StatusOutcomes == {"running", "completed", "failed", "cancelled", Raises}

(* if status in ["completed", "failed", "cancelled"] *)
is_terminal_no_cancelled(status) == status \in {"completed", "failed"}

is_terminal(status) == status \in {"completed", "failed", "cancelled"}

(* The dict returned when max_wait is exceeded.                            *)
timeout_result_as_failed(execution_id) ==
    [status |-> "failed", execution_id |-> execution_id]

timeout_result(execution_id) ==
    [status |-> "timeout", execution_id |-> execution_id]

ExecuteRequest(image_url) ==
    [api |-> "agent_execute_post",
     inputs |-> IF Truthy(image_url)
                THEN {"title", "price", "condition", "description", "image_url"}
                ELSE {"title", "price", "condition", "description"}]
GetRequest == [api |-> "execution_get", inputs |-> {}]

(* One iteration of the `while True` loop at time `now`, execution_get     *)
(* answering `status`: the call's locals afterwards.                       *)
poll_iteration(l, now, status) ==
    LET elapsed == now - l.start_time
        checked == [l EXCEPT !.elapsed = elapsed, !.checks = l.checks + 1,
                             !.requests = Append(l.requests, GetRequest)]
    IN  IF elapsed > l.max_wait
        THEN [l EXCEPT !.pc = "returned", !.elapsed = elapsed,
                       !.result = Just(timeout_result(l.execution_id))]
        ELSE IF status = Raises
        THEN [checked EXCEPT !.pc = "raised", !.exception = "Exception"]
        ELSE IF is_terminal(status)
        THEN [checked EXCEPT !.pc = "returned",
                             !.result = Just([status |-> status,
                                              execution_id |-> l.execution_id])]
        ELSE checked

(* create_listing up to the start of the loop: build the inputs, call      *)
(* _execute_agent (an exception propagates), take the execution id and     *)
(* the start time.                                                         *)
create_listing_execute ==
    /\ listing.pc = "idle"
    /\ agent.constructed
    /\ \E image_url \in {Nothing, Just(""), Just("http://img")},
          max_wait \in 0..MaxWaitBound, poll_interval \in PollIntervals,
          o1 \in PostOutcomes, o2 \in PostOutcomes, d \in 0..MaxCallDelay :
          LET r == _execute_agent(agent, o1, o2)
              reqs == [j \in 1..Len(r.posts) |-> ExecuteRequest(image_url)]
          IN  /\ agent' = r.agent
              /\ clock' = clock + d
              /\ listing' =
                    IF r.raised
                    THEN [pc |-> "raised", execution_id |-> "", start_time |-> 0,
                          max_wait |-> max_wait, poll_interval |-> poll_interval,
                          checks |-> 0, elapsed |-> 0, requests |-> reqs,
                          result |-> Nothing, exception |-> "Exception"]
                    ELSE [pc |-> "polling", execution_id |-> "exec-1",
                          start_time |-> clock + d,
                          max_wait |-> max_wait, poll_interval |-> poll_interval,
                          checks |-> 0, elapsed |-> 0, requests |-> reqs,
                          result |-> Nothing, exception |-> ""]
    /\ UNCHANGED <<execHist, statusScript>>
    /\ UNCHANGED outsidePoll

(* One loop iteration; the clock advances by the duration of execution_get *)
(* and, when the loop goes on, by the sleep.                               *)
create_listing_poll ==
    /\ listing.pc = "polling"
    /\ \E status \in StatusOutcomes, d \in 0..MaxCallDelay :
          LET l == poll_iteration(listing, clock, status)
          IN  /\ listing' = l
              /\ statusScript' = IF l.checks > listing.checks
                                 THEN Append(statusScript, status) ELSE statusScript
              /\ clock' = IF l.checks = listing.checks THEN clock
                          ELSE IF l.pc = "polling" THEN clock + d + l.poll_interval
                          ELSE clock + d
    /\ UNCHANGED <<agent, execHist>>
    /\ UNCHANGED outsidePoll

InitPoll ==
    /\ env = [v \in {} |-> Nothing]
    /\ camera = Nothing
    /\ recognizers = NoRecognizers
    /\ toolCall = NoCall
    /\ b64Call = NoCall
    /\ genai_key = Nothing
    /\ clientCall = NoCall
    /\ agent \in {[constructed |-> TRUE, agent_id |-> <<"a">>, fallback_agent_id |-> f] :
                    f \in {Nothing, Just(<<"b">>)}} \cup {NoAgent}
    /\ execHist = NoExec
    /\ listing = NoListing
    /\ statusScript = <<>>
    /\ clock = 0
    /\ MainIdle

(* create_ebay_listing with no client yet: get_agent() constructs one from *)
(* the environment; the constructor's exception leaves _agent None.        *)
create_ebay_listing_get_agent ==
    /\ listing.pc = "idle"
    /\ ~agent.constructed
    /\ \E sdk \in BOOLEAN :
          LET a == asteroid_init(sdk, Nothing)
          IN  IF a.constructed
              THEN agent' = a /\ UNCHANGED listing
              ELSE /\ listing' = [pc |-> "raised", execution_id |-> "", start_time |-> 0,
                                  max_wait |-> 0, poll_interval |-> 1,
                                  checks |-> 0, elapsed |-> 0, requests |-> <<>>,
                                  result |-> Nothing, exception |-> a.raised]
                   /\ UNCHANGED agent
    /\ UNCHANGED <<execHist, statusScript, clock>>
    /\ UNCHANGED outsidePoll

ListingTitles == { <<"Blue jacket">>, <<>> }

(* What create_ebay_listing sees of agent.create_listing. *)
listing_outcome(l) ==
    IF l.pc = "raised"
    THEN [kind |-> IF l.exception = "ImportError" THEN "import_error" ELSE "exception",
          status |-> "", execution_id |-> "", text |-> <<"boom">>]
    ELSE [kind |-> "status", status |-> l.result.val.status,
          execution_id |-> l.result.val.execution_id, text |-> <<>>]

(* create_ebay_listing returns the message for what create_listing gave;  *)
(* the listing record gains the fields title, outcome, message, raised.    *)
create_ebay_listing_return ==
    /\ listing.pc \in {"returned", "raised"}
    /\ "message" \notin DOMAIN listing
    /\ \E title \in ListingTitles :
          listing' = [title |-> title,
                      outcome |-> listing_outcome(listing),
                      message |-> create_ebay_listing(title, listing_outcome(listing)),
                      raised |-> FALSE]
               @@ listing
    /\ UNCHANGED <<agent, execHist, statusScript, clock>>
    /\ UNCHANGED outsidePoll

NextPoll ==
    \/ create_listing_execute
    \/ create_listing_poll
    \/ create_ebay_listing_get_agent
    \/ create_ebay_listing_return
SpecPoll == InitPoll /\ [][NextPoll]_vars
(* create_listing is a blocking loop of the calling thread: an iteration   *)
(* that can run does run.                                                  *)
SpecPollFair == SpecPoll /\ WF_vars(create_listing_poll)

ClaimTerminal == {"completed", "failed", "cancelled"}
GetsMade == Len(SelectSeq(listing.requests, LAMBDA q : q.api = "execution_get"))

(* C3: the statuses given to the checks so far are statusScript; the poll  *)
(* makes no check after a terminal status (only the last status seen can   *)
(* be terminal), a check that sees a terminal status returns it at once,   *)
(* so a result with the k-th status as first terminal one is returned      *)
(* after exactly k execution_get calls, and the timeout result is given    *)
(* only when no check saw a terminal status.                               *)
C3_PollStopsAtFirstTerminal ==
    listing.pc # "idle" =>
        /\ listing.checks = Len(statusScript)
        /\ GetsMade = listing.checks
        /\ \A i \in 1..(Len(statusScript) - 1) : statusScript[i] \notin ClaimTerminal
        /\ (Len(statusScript) > 0 /\ statusScript[Len(statusScript)] \in ClaimTerminal) =>
              /\ listing.pc = "returned"
              /\ listing.result.val.status = statusScript[Len(statusScript)]
        /\ (listing.pc = "returned" /\ listing.result.val.status # "timeout") =>
              /\ listing.checks > 0
              /\ statusScript[listing.checks] \in ClaimTerminal
              /\ listing.result.val.status = statusScript[listing.checks]
        /\ (listing.pc = "returned" /\ listing.result.val.status = "timeout") =>
              /\ listing.elapsed > listing.max_wait
              /\ \A i \in 1..Len(statusScript) : statusScript[i] \notin ClaimTerminal

(* [running, running, completed] gave status completed after 3 checks.    *)
C3_Witness ==
    /\ listing.pc = "returned"
    /\ statusScript = <<"running", "running", "completed">>
    /\ listing.checks = 3
    /\ GetsMade = 3
    /\ listing.result.val.status = "completed"

(* C4: a create_listing call that is polling terminates; when every status *)
(* check it made returned a non-terminal status it has returned status     *)
(* timeout with the execution id, the elapsed time being above max_wait,   *)
(* and it sent nothing but the execute and status requests (no cancel).    *)
C4_TimeoutSafety ==
    (/\ listing.pc = "returned"
     /\ \A i \in 1..Len(statusScript) : statusScript[i] \notin ClaimTerminal) =>
        /\ listing.result = Just([status |-> "timeout", execution_id |-> listing.execution_id])
        /\ listing.execution_id = "exec-1"
        /\ listing.elapsed > listing.max_wait
        /\ \A j \in 1..Len(listing.requests) :
              listing.requests[j].api \in {"agent_execute_post", "execution_get"}

C4_PollTimeout ==
    /\ []C4_TimeoutSafety
    /\ (listing.pc = "polling") ~> (listing.pc \in {"returned", "raised"})

(* Three checks all answered running and the call returned timeout.        *)
C4_Witness ==
    /\ listing.pc = "returned"
    /\ statusScript = <<"running", "running", "running">>
    /\ listing.result.val.status = "timeout"

----------------------------------------------------------------------------
(* CameraCapture.capture_base64 (camera/base.py)                           *)

(* Value returned by capture_base64 when capture() returned image_bytes.   *)
capture_base64_unpadded(image_bytes) ==
    IF image_bytes.has /\ Len(image_bytes.val) > 0
    THEN Just(SelectSeq(b64encode(image_bytes.val), LAMBDA c : c # Pad))
    ELSE Nothing

capture_base64_result(image_bytes) ==
    IF image_bytes.has /\ Len(image_bytes.val) > 0
    THEN Just(b64encode(image_bytes.val))
    ELSE Nothing

capture_base64 ==
    /\ \E image_bytes \in CaptureOutcomes :
          b64Call' = [called |-> TRUE,
                      captured |-> image_bytes,
                      returned |-> capture_base64_result(image_bytes)]
    /\ UNCHANGED outsideB64

InitIdle ==
    /\ env = [v \in {} |-> Nothing]
    /\ camera = Nothing
    /\ recognizers = NoRecognizers
    /\ toolCall = NoCall
    /\ b64Call = NoCall
    /\ genai_key = Nothing
    /\ clientCall = NoCall
    /\ ListingIdle

InitB64 == InitIdle
NextB64 == capture_base64
SpecB64 == InitB64 /\ [][NextB64]_vars

(* C7: decoding the string capture_base64() returns gives back exactly the *)
(* bytes capture() produced, and capture_base64() returns None when        *)
(* capture() returned None.                                                *)
C7_Base64RoundTrip ==
    b64Call.called =>
        /\ b64Call.captured.has =>
              /\ b64Call.returned.has
              /\ b64decode(b64Call.returned.val) = b64Call.captured
        /\ ~b64Call.captured.has => ~b64Call.returned.has

(* A two-byte image (one padding symbol) has been captured and encoded.    *)
C7_Witness ==
    /\ b64Call.called
    /\ b64Call.captured.has
    /\ Len(b64Call.captured.val) = 2
    /\ b64Call.returned.has
    /\ Len(b64Call.returned.val) = 4

(***************************************************************************)
(* The two orchestrators: main() of main.py (wake word, "wake") and of     *)
(* src/main.py (keyboard, "kbd").  Time is counted in quarter seconds.     *)
(***************************************************************************)
MaxSessions == 2
RelaxationTime == 8    \* relaxation_time=2
FramePeriod == 3       \* sliding_window_secs=0.75
SleepSecond == 4       \* time.sleep(1)

UpperToLower == [A |-> "a", S |-> "s", P |-> "p", I |-> "i", U |-> "u", B |-> "b"]
lower_char(c) == IF c \in DOMAIN UpperToLower THEN UpperToLower[c] ELSE c
lower(s) == [i \in DOMAIN s |-> lower_char(s[i])]

Digits == [c \in {"0", "1", "2"} |-> IF c = "0" THEN 0 ELSE IF c = "1" THEN 1 ELSE 2]
RECURSIVE int(_)
int(s) == IF Len(s) = 0 THEN 0
          ELSE 10 * int(SubSeq(s, 1, Len(s) - 1)) + Digits[s[Len(s)]]
(* int(s) raises ValueError on a string that is not an integer literal     *)
(* (the empty string included)                                             *)
int_raises(s) == Len(s) = 0 \/ \E i \in DOMAIN s : s[i] \notin DOMAIN Digits

(* required.items(), in insertion order, as <<var, description>> *)
required(v) ==
    <<  <<"ELEVENLABS_API_KEY", "ElevenLabs API key">>,
        <<"ELEVENLABS_AGENT_ID", "ElevenLabs Agent ID">>,
        <<"GOOGLE_API_KEY", "Google Gemini API key">> >>
    \o (IF v = "kbd" THEN << <<"ASTEROID_API_KEY", "Asteroid API key">> >> ELSE <<>>)

AgentIdGroup == <<"ASTEROID_AGENT_ID/AGENT_ID/AGENT_PROFILE_ID", "Asteroid Agent ID">>
is_missing(r) == ~Truthy(getenv(r[1]))
agent_id_missing ==
    ~(TruthyId(getenv("ASTEROID_AGENT_ID")) \/ TruthyId(getenv("AGENT_ID"))
      \/ TruthyId(getenv("AGENT_PROFILE_ID")))

(* the variant that stops at the first variable found missing *)
check_environment_first_only(v) ==
    LET m == SelectSeq(required(v), is_missing)
             \o (IF v = "kbd" /\ agent_id_missing THEN <<AgentIdGroup>> ELSE <<>>)
    IN  IF Len(m) > 0 THEN <<m[1]>> ELSE m
(* check_environment(): the list `missing`; it returns False iff non-empty *)
check_environment(v) ==
    SelectSeq(required(v), is_missing)
    \o (IF v = "kbd" /\ agent_id_missing THEN <<AgentIdGroup>> ELSE <<>>)

(* the variant that compares CAMERA_TYPE as it is written *)
get_camera_exact_case ==
    LET t == getenv("CAMERA_TYPE")
        camera_type == IF t.has THEN t.val ELSE <<"u", "s", "b">>
        i == getenv("USB_CAMERA_INDEX")
    IN  IF camera_type = <<"p", "i">>
        THEN [raised |-> FALSE, camera |-> PiCamera]
        ELSE IF i.has /\ int_raises(i.val)
        THEN [raised |-> TRUE, exception |-> "ValueError"]
        ELSE [raised |-> FALSE,
              camera |-> USBCamera(IF i.has THEN int(i.val) ELSE 0)]
(* get_camera(): the camera object constructed from the configuration, or  *)
(* the ValueError of int() on USB_CAMERA_INDEX                             *)
get_camera ==
    LET t == getenv("CAMERA_TYPE")
        camera_type == lower(IF t.has THEN t.val ELSE <<"u", "s", "b">>)
        i == getenv("USB_CAMERA_INDEX")
    IN  IF camera_type = <<"p", "i">>
        THEN [raised |-> FALSE, camera |-> PiCamera]
        ELSE IF i.has /\ int_raises(i.val)
        THEN [raised |-> TRUE, exception |-> "ValueError"]
        ELSE [raised |-> FALSE,
              camera |-> USBCamera(IF i.has THEN int(i.val) ELSE 0)]

sys_exit(code) ==
    /\ exit_code' = Just(code)
    /\ pc' = "exited"

(* main(): `if not check_environment(): sys.exit(1)` *)
main_check_environment ==
    /\ pc = "main"
    /\ missing' = check_environment(variant)
    /\ IF Len(missing') > 0
       THEN sys_exit(1)
       ELSE /\ pc' = IF variant = "wake" THEN "check_wake_word_file" ELSE "get_camera"
            /\ UNCHANGED exit_code
    /\ UNCHANGED <<env, camera, variant, conversation, convai_active, mic_stream,
                   elevenlabs, hotword_detector, sessions, mainHist>>
    /\ UNCHANGED outsideMain

(* main() of main.py: `if not check_wake_word_file(): sys.exit(1)` *)
main_check_wake_word_file ==
    /\ pc = "check_wake_word_file"
    /\ \E exists \in BOOLEAN :
          IF exists THEN pc' = "get_camera" /\ UNCHANGED exit_code
          ELSE sys_exit(1)
    /\ UNCHANGED <<env, camera, variant, conversation, convai_active, mic_stream,
                   elevenlabs, hotword_detector, missing, sessions, mainHist>>
    /\ UNCHANGED outsideMain

(* main(): camera = get_camera(); exit 1 unless camera.is_available().   *)
(* An exception of get_camera() is not caught: the interpreter prints the  *)
(* traceback and exits with status 1, the global camera still None.        *)
main_get_camera ==
    /\ pc = "get_camera"
    /\ IF get_camera.raised
       THEN /\ sys_exit(1)
            /\ mainHist' = [mainHist EXCEPT !.camera_error = Just(get_camera.exception)]
            /\ UNCHANGED <<camera, camHist>>
       ELSE /\ \E device_ok \in BOOLEAN, p \in ProbePairs, result \in CheckResults :
                  LET cam == get_camera.camera
                      r == IF cam.kind = "usb"
                           THEN usb_is_available(cam, camHist, TRUE, device_ok)
                           ELSE pi_is_available(cam, camHist, p[1], p[2], result)
                  IN  /\ camera' = Just(r.cam)
                      /\ camHist' = r.hist
                      /\ IF r.returned THEN pc' = "elevenlabs" /\ UNCHANGED exit_code
                         ELSE sys_exit(1)
            /\ mainHist' = [mainHist EXCEPT !.cameras = @ + 1]
    /\ UNCHANGED <<env, variant, conversation, convai_active, mic_stream,
                   elevenlabs, hotword_detector, missing, sessions>>
    /\ UNCHANGED <<outsideMainCam, camCall>>

(* main(): elevenlabs = ElevenLabs(api_key=api_key); the keyboard          *)
(* orchestrator then enters its loop with convai_active = False            *)
main_elevenlabs ==
    /\ pc = "elevenlabs"
    /\ elevenlabs' = Just([api_key |-> getenv("ELEVENLABS_API_KEY")])
    /\ pc' = IF variant = "wake" THEN "hotword_detector" ELSE "loop"
    /\ convai_active' = FALSE
    /\ UNCHANGED <<env, camera, variant, conversation, mic_stream,
                   hotword_detector, exit_code, missing, sessions, mainHist>>
    /\ UNCHANGED outsideMain

(* start_mic_stream(): the new value of the global mic_stream *)
start_mic_stream(ok) == IF ok THEN Just("SimpleMicStream") ELSE Nothing

Min(a, b) == IF a < b THEN a ELSE b
(* d quarter seconds pass for the detector (since: time since it last matched) *)
elapse(det, d) ==
    IF det.has
    THEN Just([det.val EXCEPT !.since = Min(@ + d, det.val.relaxation_time)])
    ELSE det

(* A frame as the detector sees it: voice activity or not, score above the *)
(* threshold or not.                                                       *)
Frames == [voice : BOOLEAN, above : BOOLEAN]

(* HotwordDetector.scoreFrame of the wake-word library, by its contract:   *)
(* None without voice activity; otherwise a match iff the score is above   *)
(* the threshold and relaxation_time has passed since the last match.      *)
scoreFrame(det, frame) ==
    IF ~frame.voice THEN [result |-> Nothing, det |-> det]
    ELSE LET match == frame.above /\ det.since >= det.relaxation_time
         IN  [result |-> Just([match |-> match, above |-> frame.above]),
              det |-> IF match THEN [det EXCEPT !.since = 0] ELSE det]

(* main() of main.py: HotwordDetector(..., relaxation_time=2) *)
main_hotword_detector ==
    /\ pc = "hotword_detector"
    /\ hotword_detector' = Just([relaxation_time |-> RelaxationTime,
                                 since |-> RelaxationTime])
    /\ pc' = "start_mic_stream"
    /\ UNCHANGED <<env, camera, variant, conversation, convai_active, mic_stream,
                   elevenlabs, exit_code, missing, sessions, mainHist>>
    /\ UNCHANGED outsideMain

(* main() of main.py: `if not start_mic_stream(): sys.exit(1)`, then       *)
(* convai_active = False and the loop                                      *)
main_start_mic_stream ==
    /\ pc = "start_mic_stream"
    /\ \E ok \in BOOLEAN :
          /\ mic_stream' = start_mic_stream(ok)
          /\ IF ok THEN pc' = "loop" /\ UNCHANGED exit_code
             ELSE sys_exit(1)
    /\ convai_active' = FALSE
    /\ UNCHANGED <<env, camera, variant, conversation, elevenlabs,
                   hotword_detector, missing, sessions, mainHist>>
    /\ UNCHANGED outsideMain

Listening ==
    /\ pc = "loop"
    /\ ~convai_active
    /\ mainHist.activations < MaxSessions

(* `while True: if not convai_active:` is reached *)
LoopIdle == pc = "loop" /\ ~convai_active

(* the loop of main.py with mic_stream None: sleep(1), start_mic_stream()  *)
wake_restart_mic ==
    /\ variant = "wake"
    /\ LoopIdle
    /\ mic_stream = Nothing
    /\ \E ok \in BOOLEAN : mic_stream' = start_mic_stream(ok)
    /\ hotword_detector' = elapse(hotword_detector, SleepSecond)
    /\ mainHist' = [mainHist EXCEPT !.last = "restart_mic"]
    /\ UNCHANGED <<env, camera, variant, pc, conversation, convai_active,
                   elevenlabs, exit_code, missing, sessions>>
    /\ UNCHANGED outsideMain

(* the variant whose handler gives up on a frame error *)
wake_frame_error_exits ==
    /\ variant = "wake"
    /\ LoopIdle
    /\ mic_stream # Nothing
    /\ mic_stream' = Nothing
    /\ hotword_detector' = elapse(hotword_detector, FramePeriod)
    /\ mainHist' = [mainHist EXCEPT !.last = "frame_error"]
    /\ sys_exit(1)
    /\ UNCHANGED <<env, camera, variant, conversation, convai_active,
                   elevenlabs, missing, sessions>>
    /\ UNCHANGED outsideMain

(* getFrame() or scoreFrame() raised: mic_stream = None, sleep(1),         *)
(* start_mic_stream()                                                      *)
wake_frame_error ==
    /\ variant = "wake"
    /\ LoopIdle
    /\ mic_stream # Nothing
    /\ \E ok \in BOOLEAN : mic_stream' = start_mic_stream(ok)
    /\ hotword_detector' = elapse(hotword_detector, FramePeriod + SleepSecond)
    /\ mainHist' = [mainHist EXCEPT !.last = "frame_error"]
    /\ UNCHANGED <<env, camera, variant, pc, conversation, convai_active,
                   elevenlabs, exit_code, missing, sessions>>
    /\ UNCHANGED outsideMain

(* the variant that leaves the stream running *)
stop_mic_stream_keeps_stream(stream) == stream
(* stop_mic_stream(): mic_stream = None *)
stop_mic_stream(stream) == Nothing

(* the test of the loop on a result that is not None *)
wake_trigger_on_score(result) == result.above
wake_trigger(result) == result.match

(* one frame of the loop of main.py: frame = mic_stream.getFrame(),        *)
(* result = hotword_detector.scoreFrame(frame); on a match stop the        *)
(* microphone and go Active                                                *)
wake_frame ==
    /\ variant = "wake"
    /\ Listening
    /\ mic_stream # Nothing
    /\ \E frame \in Frames :
         LET before == elapse(hotword_detector, FramePeriod).val
             scored == scoreFrame(before, frame)
             inside == before.since < before.relaxation_time
             start == scored.result.has /\ wake_trigger(scored.result.val)
         IN  /\ hotword_detector' = Just(scored.det)
             /\ IF start
                THEN /\ mic_stream' = stop_mic_stream(mic_stream)
                     /\ convai_active' = TRUE
                     /\ pc' = "create_conversation"
                ELSE UNCHANGED <<mic_stream, convai_active, pc>>
             /\ mainHist' =
                  [mainHist EXCEPT
                     !.last = IF start THEN "wake_word" ELSE "frame",
                     !.matches = IF scored.result.has /\ scored.result.val.match
                                 THEN @ + 1 ELSE @,
                     !.activations = IF start THEN @ + 1 ELSE @,
                     !.retriggered = @ \/ (start /\ inside),
                     !.suppressed = @ \/ (frame.voice /\ frame.above /\ inside
                                          /\ ~start)]
    /\ UNCHANGED <<env, camera, variant, conversation, elevenlabs, exit_code,
                   missing, sessions>>
    /\ UNCHANGED outsideMain

(* get_key_input(): None without pending input, else the key lower-cased *)
Keys == {"a", "A", "s", "S", "x", ""}
KeyOutcomes == {Nothing} \cup {Just(k) : k \in Keys}
(* the variant that returns the key as typed *)
get_key_input_as_typed(pressed) == pressed
get_key_input(pressed) == IF pressed.has THEN Just(lower_char(pressed.val)) ELSE Nothing

(* the loop of src/main.py on key 'a': go Active *)
kbd_start_key ==
    /\ variant = "kbd"
    /\ Listening
    /\ \E pressed \in KeyOutcomes :
          /\ get_key_input(pressed) = Just("a")
          /\ convai_active' = TRUE
          /\ pc' = "create_conversation"
          /\ mainHist' = [mainHist EXCEPT !.last = "start_key",
                                          !.key = pressed,
                                          !.activations = @ + 1]
    /\ UNCHANGED <<env, camera, variant, conversation, mic_stream, elevenlabs,
                   hotword_detector, exit_code, missing, sessions>>
    /\ UNCHANGED outsideMain

(* the loop of src/main.py on any other key or none: nothing starts,       *)
(* sleep(0.1)                                                              *)
kbd_other_key ==
    /\ variant = "kbd"
    /\ Listening
    /\ \E pressed \in KeyOutcomes :
          LET key == get_key_input(pressed)
          IN  /\ key # Just("a")
              /\ mainHist' = [mainHist EXCEPT !.key = pressed, !.last =
                                 IF key = Just("s") THEN "cancel_key" ELSE "no_key"]
    /\ UNCHANGED <<env, camera, variant, pc, conversation, convai_active, mic_stream,
                   elevenlabs, hotword_detector, exit_code, missing, sessions>>
    /\ UNCHANGED outsideMain

(* get_key_input() raised: the loop prints the error and sleeps a second *)
kbd_key_error ==
    /\ variant = "kbd"
    /\ Listening
    /\ mainHist' = [mainHist EXCEPT !.last = "key_error", !.key = Nothing]
    /\ UNCHANGED <<env, camera, variant, pc, conversation, convai_active, mic_stream,
                   elevenlabs, hotword_detector, exit_code, missing, sessions>>
    /\ UNCHANGED outsideMain

(* the client tools create_conversation registers *)
registered_tools(v) ==
    IF v = "wake" THEN {"identify_cash", "read_packaging"}
    ELSE {"identify_cash", "identify_item", "read_packaging", "create_listing"}

(* conversation = create_conversation(elevenlabs, agent_id, ...): a new    *)
(* handle, or an exception that leaves the global as it was                *)
session_create ==
    /\ pc = "create_conversation"
    /\ \E ok \in BOOLEAN :
          IF ok
          THEN /\ sessions' = Append(sessions,
                      [trigger |-> mainHist.activations,
                       agent_id |-> getenv("ELEVENLABS_AGENT_ID"),
                       client_tools |-> registered_tools(variant),
                       starts |-> 0, started_for |-> 0, active |-> FALSE,
                       tool_cameras |-> <<>>])
               /\ conversation' = Just(Len(sessions) + 1)
               /\ pc' = "start_session"
          ELSE /\ pc' = "finally"
               /\ UNCHANGED <<sessions, conversation>>
    /\ UNCHANGED <<env, camera, variant, convai_active, mic_stream, elevenlabs,
                   hotword_detector, exit_code, missing, mainHist>>
    /\ UNCHANGED outsideMain

(* conversation.start_session(): the session runs, or the call raises *)
session_start ==
    /\ pc = "start_session"
    /\ \E ok \in BOOLEAN :
          /\ sessions' = [sessions EXCEPT ![conversation.val] =
                            [@ EXCEPT !.starts = @ + 1,
                                      !.started_for = mainHist.activations,
                                      !.active = ok]]
          /\ pc' = IF ok THEN "wait_for_session_end" ELSE "finally"
    /\ UNCHANGED <<env, camera, variant, conversation, convai_active, mic_stream,
                   elevenlabs, hotword_detector, exit_code, missing, mainHist>>
    /\ UNCHANGED outsideMain

(* conversation.wait_for_session_end(): blocks while the session lasts,    *)
(* then returns the conversation id or raises                              *)
SessionDurations == {0, RelaxationTime}
session_wait ==
    /\ pc = "wait_for_session_end"
    /\ \E duration \in SessionDurations :
          hotword_detector' = elapse(hotword_detector, duration)
    /\ sessions' = [sessions EXCEPT ![conversation.val].active = FALSE]
    /\ pc' = "finally"
    /\ UNCHANGED <<env, camera, variant, conversation, convai_active, mic_stream,
                   elevenlabs, exit_code, missing, mainHist>>
    /\ UNCHANGED outsideMain

(* the variant whose finally block leaves the loop Active *)
finally_block_stay_active(conv) == [convai_active |-> TRUE, conversation |-> Nothing]
(* the variant whose finally block keeps the handle *)
finally_block_keep_handle(conv) == [convai_active |-> FALSE, conversation |-> conv]
(* the finally block: convai_active = False; conversation = None *)
finally_block(conv) == [convai_active |-> FALSE, conversation |-> Nothing]

(* finally: discard the handle; main.py then sleeps a second and restarts  *)
(* the microphone stream                                                   *)
session_finally ==
    /\ pc = "finally"
    /\ convai_active' = finally_block(conversation).convai_active
    /\ conversation' = finally_block(conversation).conversation
    /\ IF variant = "wake"
       THEN /\ \E ok \in BOOLEAN : mic_stream' = start_mic_stream(ok)
            /\ hotword_detector' = elapse(hotword_detector, SleepSecond)
       ELSE UNCHANGED <<mic_stream, hotword_detector>>
    /\ pc' = "loop"
    /\ UNCHANGED <<env, camera, variant, elevenlabs, exit_code, missing, sessions,
                   mainHist>>
    /\ UNCHANGED outsideMain

RequiredValues == {Nothing, Just(""), Just("set")}
AgentIdValues == {Nothing, Just(<<>>), Just(<<"7">>)}
CameraTypes == {Nothing, Just(<<"P", "i">>), Just(<<"u", "s", "b">>), Just(<<"x">>)}
CameraIndexes == {Nothing, Just(<<"1", "2">>), Just(<<>>), Just(<<"x">>)}

InitMain ==
    /\ variant \in Variants
    /\ env \in {[ELEVENLABS_API_KEY |-> a, ELEVENLABS_AGENT_ID |-> b,
                 GOOGLE_API_KEY |-> c, ASTEROID_API_KEY |-> d,
                 ASTEROID_AGENT_ID |-> e, AGENT_ID |-> f, AGENT_PROFILE_ID |-> g,
                 CAMERA_TYPE |-> t, USB_CAMERA_INDEX |-> i] :
                  a \in RequiredValues, b \in RequiredValues, c \in RequiredValues,
                  d \in IF variant = "kbd" THEN RequiredValues ELSE {Nothing},
                  e \in IF variant = "kbd" THEN AgentIdValues ELSE {Nothing},
                  f \in IF variant = "kbd" THEN AgentIdValues ELSE {Nothing},
                  g \in IF variant = "kbd" THEN AgentIdValues ELSE {Nothing},
                  t \in CameraTypes, i \in CameraIndexes}
    /\ pc = "main"
    /\ camera = Nothing
    /\ conversation = Nothing
    /\ convai_active = FALSE
    /\ mic_stream = Nothing
    /\ elevenlabs = Nothing
    /\ hotword_detector = Nothing
    /\ exit_code = Nothing
    /\ missing = <<>>
    /\ sessions = <<>>
    /\ mainHist = NoHist
    /\ camCall = NoCall
    /\ camHist = NoCamHist
    /\ visionCall = NoCall
    /\ recognizers = NoRecognizers
    /\ toolCall = NoCall
    /\ b64Call = NoCall
    /\ genai_key = Nothing
    /\ clientCall = NoCall
    /\ agent = NoAgent
    /\ execHist = NoExec
    /\ listing = NoListing
    /\ statusScript = <<>>
    /\ clock = 0

NextMain ==
    \/ main_check_environment
    \/ main_check_wake_word_file
    \/ main_get_camera
    \/ main_elevenlabs
    \/ main_hotword_detector
    \/ main_start_mic_stream
    \/ wake_restart_mic
    \/ wake_frame_error
    \/ wake_frame
    \/ kbd_start_key
    \/ kbd_other_key
    \/ kbd_key_error
    \/ session_create
    \/ session_start
    \/ session_wait
    \/ session_finally

SpecMain == InitMain /\ [][NextMain]_vars

(* The main thread runs: a session step that can be taken is taken, and    *)
(* the microphone can be opened: the reopening of the loop, tried on       *)
(* every iteration without a stream, does not fail forever.                *)
mic_reopened == wake_restart_mic /\ mic_stream' # Nothing
SpecMainFair ==
    /\ SpecMain
    /\ WF_vars(session_create)
    /\ WF_vars(session_start)
    /\ WF_vars(session_wait)
    /\ WF_vars(session_finally)
    /\ WF_vars(mic_reopened)

ClaimRequired ==
    {"ELEVENLABS_API_KEY", "ELEVENLABS_AGENT_ID", "GOOGLE_API_KEY"}
    \cup (IF variant = "kbd" THEN {"ASTEROID_API_KEY"} ELSE {})
ClaimUnset(name) == env[name] = Nothing \/ env[name] = Just("")
ClaimNoId(name) == env[name] = Nothing \/ env[name] = Just(<<>>)
ClaimMissing ==
    {n \in ClaimRequired : ClaimUnset(n)}
    \cup (IF /\ variant = "kbd"
             /\ ClaimNoId("ASTEROID_AGENT_ID")
             /\ ClaimNoId("AGENT_ID")
             /\ ClaimNoId("AGENT_PROFILE_ID")
          THEN {"ASTEROID_AGENT_ID/AGENT_ID/AGENT_PROFILE_ID"} ELSE {})
NothingCreated ==
    /\ camera = Nothing
    /\ mic_stream = Nothing
    /\ elevenlabs = Nothing
    /\ hotword_detector = Nothing
    /\ conversation = Nothing
    /\ sessions = <<>>

(* C9: when any required environment variable is unset or empty, main()    *)
(* never gets past the environment check: it reports every missing         *)
(* variable and exits with status 1, and no camera, microphone stream,     *)
(* voice client or conversation is ever created.                           *)
C9_MissingEnvExits ==
    ClaimMissing # {} =>
        /\ pc \in {"main", "exited"}
        /\ NothingCreated
        /\ pc = "exited" =>
              /\ exit_code = Just(1)
              /\ {missing[i][1] : i \in DOMAIN missing} = ClaimMissing
              /\ Len(missing) = Cardinality(ClaimMissing)

(* The wake-word main() has exited on an environment where one required    *)
(* variable is unset and another is empty.                                 *)
C9_Witness ==
    /\ variant = "wake"
    /\ pc = "exited"
    /\ env["ELEVENLABS_API_KEY"] = Nothing
    /\ env["GOOGLE_API_KEY"] = Just("")
    /\ env["ELEVENLABS_AGENT_ID"] = Just("set")
    /\ Len(missing) = 2

ActivePositions ==
    {"create_conversation", "start_session", "wait_for_session_end", "finally"}

(* C6: in the wake-word loop every matching frame moves Listening to       *)
(* Active exactly once and starts at most one conversation, and a frame    *)
(* scoring above the threshold inside the relaxation window of the last    *)
(* match never starts a conversation.                                      *)
C6_OneActivationPerMatch ==
    variant = "wake" =>
        /\ mainHist.activations = mainHist.matches
        /\ ~mainHist.retriggered
        /\ convai_active <=> pc \in ActivePositions
        /\ Len(sessions) <= mainHist.activations
        /\ \A h \in DOMAIN sessions :
              /\ sessions[h].starts <= 1
              /\ sessions[h].trigger \in 1..mainHist.matches
              /\ \A g \in DOMAIN sessions :
                    g # h => sessions[g].trigger # sessions[h].trigger

(* One wake word started one conversation, which has ended, and a later    *)
(* frame above the threshold inside the relaxation window was ignored.     *)
C6_Witness ==
    /\ variant = "wake"
    /\ pc = "loop"
    /\ mainHist.activations = 1
    /\ mainHist.suppressed
    /\ Len(sessions) = 1
    /\ sessions[1].starts = 1

(* C10: in both orchestrators at most one session is active; a session is  *)
(* only started on the handle created for the current trigger, and no      *)
(* handle is started twice; the handle exists only while Active and is     *)
(* discarded, with convai_active false, once the session ended or raised.  *)
C10_OneSessionPerTrigger ==
    /\ Cardinality({h \in DOMAIN sessions : sessions[h].active}) <= 1
    /\ \A h \in DOMAIN sessions :
          /\ sessions[h].starts <= 1
          /\ sessions[h].starts = 1 => sessions[h].started_for = sessions[h].trigger
          /\ sessions[h].active => conversation = Just(h)
          /\ \A g \in DOMAIN sessions : g # h => sessions[g].trigger # sessions[h].trigger
    /\ conversation.has => convai_active /\ pc \in ActivePositions
    /\ pc = "loop" => ~convai_active /\ conversation = Nothing

(* Two triggers each got their own handle; the first session ran and       *)
(* ended, the second failed to start, and the loop is listening again.     *)
C10_Witness ==
    /\ pc = "loop"
    /\ Len(sessions) = 2
    /\ sessions[1].starts = 1
    /\ sessions[2].starts = 1
    /\ sessions[2].started_for = 2
    /\ conversation = Nothing

-----------------------------------------------------------------------------
(***************************************************************************)
(* Calls on one camera object, in any order.                               *)
(***************************************************************************)
MaxCameraCalls == 3
(* frames the device may hold buffered, from before the call, when         *)
(* capture() starts *)
MaxStale == 6
CameraFrames == {Nothing, Just(<<77>>), Just(<<1, 255>>)}

prev_op == IF camCall.called THEN camCall.op ELSE "none"

(* The call `op` on the camera object gave result r. *)
CameraCalled(op, given, r, available, image, runs, grabs) ==
    /\ camera' = Just(r.cam)
    /\ camHist' = [r.hist EXCEPT !.calls = @ + 1]
    /\ camCall' = [called |-> TRUE, op |-> op, prev |-> prev_op,
                   given |-> given, before |-> camera.val, hist_before |-> camHist,
                   raised |-> r.raised,
                   available |-> available, image |-> image,
                   runs |-> runs, grabs |-> grabs,
                   frame_no |-> IF op = "capture" /\ r.cam.kind = "usb"
                                THEN r.frame_no ELSE 0]
    /\ UNCHANGED outsideCamera

CameraCallable(kind) ==
    /\ camera.has
    /\ camera.val.kind = kind
    /\ camHist.calls < MaxCameraCalls

USBCamera_is_available ==
    /\ CameraCallable("usb")
    /\ \E still_open \in BOOLEAN, device_ok \in BOOLEAN :
          LET r == usb_is_available(camera.val, camHist, still_open, device_ok)
          IN  CameraCalled("is_available", [still_open |-> still_open, device_ok |-> device_ok],
                           r, r.returned, Nothing, 0, r.grabs)

USBCamera_capture ==
    /\ CameraCallable("usb")
    /\ \E still_open \in BOOLEAN, device_ok \in BOOLEAN,
          frame \in CameraFrames, encoded \in BOOLEAN, stale \in 0..MaxStale :
          LET r == usb_capture(camera.val, camHist, still_open, device_ok,
                               frame, encoded)
          IN  CameraCalled("capture", [still_open |-> still_open, device_ok |-> device_ok,
                                       frame |-> frame, encoded |-> encoded,
                                       stale |-> stale],
                           r, FALSE, r.returned, 0, r.grabs)

USBCamera_release ==
    /\ CameraCallable("usb")
    /\ LET r == release(camera.val, camHist)
       IN  CameraCalled("release", Nothing, r, FALSE, Nothing, 0, 0)

PiCamera_is_available ==
    /\ CameraCallable("pi")
    /\ \E p \in ProbePairs, result \in CheckResults :
          LET p1 == p[1]
              p2 == p[2]
              r == pi_is_available(camera.val, camHist, p1, p2, result)
          IN  CameraCalled("is_available", [p1 |-> p1, p2 |-> p2, result |-> result],
                           r, r.returned, Nothing, r.runs, 0)

PiCamera_capture ==
    /\ CameraCallable("pi")
    /\ \E p \in ProbePairs, result \in CaptureResults :
          LET p1 == p[1]
              p2 == p[2]
              r == pi_capture(camera.val, camHist, p1, p2, result)
          IN  CameraCalled("capture", [p1 |-> p1, p2 |-> p2, result |-> result],
                           r, FALSE, r.returned, r.runs, 0)

PiCamera_release ==
    /\ CameraCallable("pi")
    /\ LET r == release(camera.val, camHist)
       IN  CameraCalled("release", Nothing, r, FALSE, Nothing, 0, 0)

CameraIndexValues == {0, 2}

InitCamera ==
    /\ camera \in {Just(PiCamera)} \cup {Just(USBCamera(i)) : i \in CameraIndexValues}
    /\ env = [v \in {} |-> Nothing]
    /\ recognizers = NoRecognizers
    /\ toolCall = NoCall
    /\ b64Call = NoCall
    /\ genai_key = Nothing
    /\ clientCall = NoCall
    /\ ListingIdle

NextCamera ==
    \/ USBCamera_is_available
    \/ USBCamera_capture
    \/ USBCamera_release
    \/ PiCamera_is_available
    \/ PiCamera_capture
    \/ PiCamera_release

SpecCamera == InitCamera /\ [][NextCamera]_vars

ClaimUsbClosed(cam) == cam.kind = "usb" => cam._cap = Nothing

(* C11: release() of either backend never raises, leaves no open handle,   *)
(* changes nothing on a camera that holds no handle (never opened or       *)
(* already released), and releasing again gives the state one release      *)
(* gave.                                                                   *)
C11_ReleaseIdempotent ==
    /\ camCall.called /\ camCall.op = "release" =>
          /\ ~camCall.raised
          /\ ClaimUsbClosed(camera.val)
          /\ ClaimUsbClosed(camCall.before) => camera.val = camCall.before
          /\ camCall.before.kind = "pi" => camera.val = camCall.before
    /\ LET once == release(camera.val, camHist)
           twice == release(once.cam, once.hist)
       IN  /\ ~once.raised /\ ~twice.raised
           /\ twice.cam = once.cam
           /\ twice.hist = once.hist

(* release() was called on a USB camera holding an open handle and then    *)
(* called again.                                                           *)
C11_Witness ==
    /\ camCall.called
    /\ camCall.op = "release"
    /\ camCall.prev = "release"
    /\ camera.val.kind = "usb"
    /\ camHist.opens = 1
    /\ camHist.releases = 1

(* release() was called on a camera whose device was never opened.         *)
C11_WitnessNeverOpened ==
    /\ camCall.called
    /\ camCall.op = "release"
    /\ camHist.opens = 0
    /\ camHist.calls = 1

ClaimPiCall(op) ==
    /\ camCall.called
    /\ camCall.before.kind = "pi"
    /\ camCall.op = op
ClaimBadStdouts == { <<>>, <<Newline>>, <<19, 4, 11>> }
ClaimRunFailed(result) == result.kind # "exit" \/ result.returncode # 0

(* C12: PiCamera.capture() and is_available() never raise; when the        *)
(* subprocess cannot be started (missing interpreter), exits non-zero or   *)
(* times out, or its output is empty or not decodable, capture() returns   *)
(* None, and a probe that cannot be started, exits non-zero, times out or  *)
(* does not print OK makes is_available() return False.                    *)
C12_PiCameraNeverRaises ==
    /\ camCall.called /\ camCall.before.kind = "pi" => ~camCall.raised
    /\ ( /\ ClaimPiCall("capture")
         /\ \/ ClaimRunFailed(camCall.given.result)
            \/ camCall.given.result.stdout \in ClaimBadStdouts )
       => camCall.image = Nothing
    /\ ( /\ ClaimPiCall("is_available")
         /\ camCall.before._available = Nothing
         /\ \/ ClaimRunFailed(camCall.given.result)
            \/ ~camCall.given.result.ok_in_stdout )
       => ~camCall.available

(* capture() got output that base64 cannot decode, with no interpreter     *)
(* passing the import probe, and returned None.                            *)
C12_Witness ==
    /\ ClaimPiCall("capture")
    /\ camCall.given.p1 = "raise"
    /\ camCall.given.p2 = "raise"
    /\ camCall.given.result.kind = "exit"
    /\ camCall.given.result.returncode = 0
    /\ camCall.given.result.stdout = <<19, 4, 11>>
    /\ camCall.image = Nothing

(* C18: once PiCamera.is_available() has returned true, _available stays   *)
(* true, and every later is_available() call returns true without running  *)
(* a subprocess.                                                           *)
C18_AvailabilityCached ==
    /\ ClaimPiCall("is_available") /\ camCall.available =>
          camera.val._available = Just(TRUE)
    /\ camCall.called /\ camCall.before._available = Just(TRUE) =>
          /\ camera.val._available = Just(TRUE)
          /\ camCall.op = "is_available" =>
                /\ camCall.available
                /\ camCall.runs = 0

(* is_available() returned true once and was called again while the probe  *)
(* would have timed out; it returned true and ran nothing.                 *)
C18_Witness ==
    /\ ClaimPiCall("is_available")
    /\ camCall.prev = "is_available"
    /\ camCall.before._available = Just(TRUE)
    /\ camCall.given.result.kind = "timeout"
    /\ camCall.available
    /\ camHist.calls = 2

ClaimProbeOk(result) ==
    result \in {[kind |-> "exit", returncode |-> 0, ok_in_stdout |-> TRUE]}

(* C30: a PiCamera object runs its availability check script at most once: *)
(* the first is_available() stores what the check gave, a failed, errored  *)
(* or timed-out check included, and every later call returns the stored    *)
(* value without running anything; capture() runs its subprocess whatever  *)
(* is stored and leaves the stored value as it was.                        *)
C30_ProbeAtMostOnce ==
    /\ camHist.checks <= 1
    /\ (ClaimPiCall("is_available") /\ camCall.before._available = Nothing) =>
          /\ camCall.available = ClaimProbeOk(camCall.given.result)
          /\ camera.val._available = Just(camCall.available)
          /\ camHist.checks = 1
    /\ (ClaimPiCall("is_available") /\ camCall.before._available # Nothing) =>
          /\ camCall.available = camCall.before._available.val
          /\ camera.val._available = camCall.before._available
          /\ camCall.runs = 0
          /\ camHist.checks = camCall.hist_before.checks
    /\ ClaimPiCall("capture") =>
          /\ camera.val._available = camCall.before._available
          /\ camHist.checks = camCall.hist_before.checks
          /\ camCall.runs >= 1
          /\ camCall.given.result =
                [kind |-> "exit", returncode |-> 0, stdout |-> b64encode(<<77>>) \o <<Newline>>]
              => camCall.image = Just(<<77>>)

(* is_available() was called again after a check that timed out, while the *)
(* check would now have succeeded; it returned false and ran nothing.      *)
C30_Witness ==
    /\ ClaimPiCall("is_available")
    /\ camCall.prev = "is_available"
    /\ camCall.before._available = Just(FALSE)
    /\ ClaimProbeOk(camCall.given.result)
    /\ ~camCall.available
    /\ camCall.runs = 0
    /\ camHist.checks = 1

(* capture() on a camera whose stored check result is false returned an    *)
(* image and left the stored value false.                                  *)
C30_WitnessCapture ==
    /\ ClaimPiCall("capture")
    /\ camCall.before._available = Just(FALSE)
    /\ camCall.image = Just(<<77>>)
    /\ camera.val._available = Just(FALSE)

-----------------------------------------------------------------------------
(***************************************************************************)
(* Method calls on a constructed vision client, in each call shape.        *)
(***************************************************************************)
VisionImages == { <<77>>, <<1, 255>>, <<0, 128, 255>> }
Base64Args == {b64encode(x) : x \in VisionImages} \cup { <<19, 4, 11>>, <<19>> }
VisionFiles ==
    {[kind |-> "ok", data |-> x, text |-> <<>>] : x \in VisionImages}
    \cup {f \in FileOutcomes : f.kind # "ok"}
FilePaths == {"", "note.jpg"}
Descriptions == { <<>>, <<"A red mug on a desk.">> }

AttributeError(name) == [type |-> "AttributeError", attribute |-> name]

(* The analysis methods each client class defines. *)
methods(mod) ==
    {"bytes", "file"}
    \cup (IF mod \in {"cash_recognition", "item_recognition"} THEN {"base64"} ELSE {})
    \cup (IF mod = "analysis" THEN {"search_terms"} ELSE {})

(* the variant that hands the string on without decoding it *)
analyze_base64_undecoded(mod, image_base64, remote) ==
    [raised |-> Nothing] @@ analyze_image_bytes(mod, image_base64, remote)
(* the variant that lets a failing b64decode out of the method *)
analyze_base64_unguarded(mod, image_base64, remote) ==
    LET image_bytes == b64decode(image_base64)
    IN  IF image_bytes.has
        THEN [raised |-> Nothing] @@ analyze_image_bytes(mod, image_bytes.val, remote)
        ELSE [raised |-> Just([type |-> "binascii.Error"]), text |-> <<>>,
              calls |-> <<>>]
(* analyze_base64 of CashRecognizer and ItemRecognizer *)
analyze_base64(mod, image_base64, remote) ==
    LET image_bytes == b64decode(image_base64)
    IN  IF image_bytes.has
        THEN [raised |-> Nothing] @@ analyze_image_bytes(mod, image_bytes.val, remote)
        ELSE [raised |-> Nothing,
              text |-> <<"Sorry, I had trouble decoding the image: ", "Incorrect padding">>,
              calls |-> <<>>]

(* VisualAnalyzer.extract_search_terms *)
extract_search_terms(description, remote) ==
    [raised |-> Nothing,
     text |-> IF remote.ok THEN remote.text
              ELSE Fmt("Sorry, I had trouble extracting search terms: ", remote.text),
     calls |-> << [api |-> "generate_content", module |-> "analysis",
                   data |-> description] >>]

(* The method of call shape `shape` was called on a client of `mod`. *)
VisionCalled(mod, shape, arg, file, remote, r) ==
    /\ visionCall' =
         IF shape \in methods(mod)
         THEN [called |-> TRUE, module |-> mod, shape |-> shape, arg |-> arg,
               file |-> file, remote |-> remote, raised |-> r.raised,
               text |-> r.text, calls |-> r.calls]
         ELSE [called |-> TRUE, module |-> mod, shape |-> shape, arg |-> arg,
               file |-> file, remote |-> remote,
               raised |-> Just(AttributeError(shape)), text |-> <<>>,
               calls |-> <<>>]
    /\ UNCHANGED outsideVision

NoFile == [kind |-> "none", data |-> <<>>, text |-> <<>>]

vision_bytes ==
    /\ \E mod \in VisionModules, image_bytes \in VisionImages, remote \in RemoteOutcomes :
          VisionCalled(mod, "bytes", image_bytes, NoFile, remote,
                       [raised |-> Nothing] @@ analyze_image_bytes(mod, image_bytes, remote))

vision_file ==
    /\ \E mod \in VisionModules, filepath \in FilePaths, file \in VisionFiles,
          remote \in RemoteOutcomes :
          VisionCalled(mod, "file", Str(filepath), file, remote,
                       [raised |-> Nothing] @@ analyze_image_file(mod, filepath, file, remote))

vision_base64 ==
    /\ \E mod \in VisionModules, image_base64 \in Base64Args, remote \in RemoteOutcomes :
          VisionCalled(mod, "base64", image_base64, NoFile, remote,
                       analyze_base64(mod, image_base64, remote))

vision_search_terms ==
    /\ \E mod \in VisionModules, description \in Descriptions, remote \in RemoteOutcomes :
          VisionCalled(mod, "search_terms", description, NoFile, remote,
                       extract_search_terms(description, remote))

InitVision == InitIdle
NextVision == vision_bytes \/ vision_file \/ vision_base64 \/ vision_search_terms
SpecVision == InitVision /\ [][NextVision]_vars

ClaimApologies ==
    { "Sorry, I had trouble analyzing the image: ",
      "Sorry, I had trouble reading the packaging: ",
      "Sorry, I couldn't find the image file: ",
      "Sorry, I had trouble reading the image: ",
      "Sorry, I had trouble decoding the image: ",
      "Sorry, I had trouble extracting search terms: " }
ClaimUndecodable == { <<19, 4, 11>>, <<19>> }
ClaimCallFails ==
    \/ visionCall.shape = "file" /\ visionCall.file.kind # "ok"
    \/ visionCall.shape = "base64" /\ visionCall.arg \in ClaimUndecodable
    \/ ~visionCall.remote.ok

(* C13: every analysis method a vision client defines (bytes, file path,   *)
(* base64 string, search-term summarization) returns a text and never      *)
(* raises; a failed remote call, a missing or unreadable file and an        *)
(* undecodable base64 string each give a text that starts with an apology. *)
C13_AnalysisNeverRaises ==
    visionCall.called /\ visionCall.shape \in methods(visionCall.module) =>
        /\ visionCall.raised = Nothing
        /\ visionCall.text \in Seq(STRING)
        /\ ClaimCallFails =>
              /\ Len(visionCall.text) >= 1
              /\ visionCall.text[1] \in ClaimApologies
        /\ ~ClaimCallFails => visionCall.text = visionCall.remote.text

(* ItemRecognizer.analyze_base64 was given a string that cannot be decoded *)
(* and returned the decoding apology.                                      *)
C13_Witness ==
    /\ visionCall.called
    /\ visionCall.module = "item_recognition"
    /\ visionCall.shape = "base64"
    /\ visionCall.arg = <<19, 4, 11>>
    /\ visionCall.raised = Nothing
    /\ visionCall.text[1] = "Sorry, I had trouble decoding the image: "

ClaimShapes == {"bytes", "file", "base64"}
ClaimBase64 ==
    (<<77>> :> <<19, 16, 64, 64>>) @@ (<<1, 255>> :> <<0, 31, 60, 64>>)
    @@ (<<0, 128, 255>> :> <<0, 8, 3, 63>>)
ClaimResult == [text |-> visionCall.text, calls |-> visionCall.calls]
ClaimAgrees ==
    /\ ( visionCall.shape = "file" /\ visionCall.file.kind = "ok" ) =>
          ClaimResult = analyze_image_bytes(visionCall.module, visionCall.file.data,
                                            visionCall.remote)
    /\ visionCall.shape = "base64" =>
          \A x \in DOMAIN ClaimBase64 :
             visionCall.arg = ClaimBase64[x] =>
                ClaimResult = analyze_image_bytes(visionCall.module, x,
                                                  visionCall.remote)

----------------------------------------------------------------------------
(* create_ebay_listing over the poll it wraps (SpecPoll)                   *)

ClaimReturned(status) ==
    /\ "message" \in DOMAIN listing
    /\ listing.pc = "returned"
    /\ listing.result.val.status = status

ClaimFailureTexts == {"Failed to create listing: ", "Error creating listing: ",
                      "Asteroid SDK not available: "}

(* C19: create_ebay_listing never raises and answers each outcome of the   *)
(* poll with its own message: completed gives the success message naming   *)
(* the title, failed the failure message, timeout the "taking longer than  *)
(* expected" message with the execution id (not a failure message), any    *)
(* other status the status by name, a missing SDK the "SDK not available"  *)
(* message and any other exception (missing credentials included) the      *)
(* "Error creating listing" message.                                       *)
C19_ListingOutcomeMessages ==
    "message" \in DOMAIN listing =>
        /\ ~listing.raised
        /\ Len(listing.message) > 0
        /\ ClaimReturned("completed") =>
              listing.message = <<"Successfully created eBay listing for '">>
                                \o listing.title \o <<"'">>
        /\ ClaimReturned("failed") =>
              listing.message[1] = "Failed to create listing: "
        /\ ClaimReturned("timeout") =>
              /\ listing.message =
                    <<"Listing creation is taking longer than expected. Execution ID: ",
                      "exec-1">>
              /\ listing.message[1] \notin ClaimFailureTexts
        /\ ClaimReturned("cancelled") =>
              listing.message = <<"Listing creation status: ", "cancelled">>
        /\ (listing.pc = "raised" /\ listing.exception = "ImportError") =>
              listing.message[1] = "Asteroid SDK not available: "
        /\ (listing.pc = "raised" /\ listing.exception # "ImportError") =>
              listing.message[1] = "Error creating listing: "

(* A poll that ran out of time was answered with the timeout message.      *)
C19_Witness ==
    /\ ClaimReturned("timeout")
    /\ listing.checks > 0
    /\ listing.title = <<"Blue jacket">>
    /\ listing.message[2] = "exec-1"

(* The constructor's ValueError (no credentials) became an error message.  *)
C19_WitnessNoCredentials ==
    /\ "message" \in DOMAIN listing
    /\ listing.pc = "raised"
    /\ listing.exception = "ValueError"
    /\ ~agent.constructed

----------------------------------------------------------------------------
(* The loop after a session and after microphone errors                    *)

ClaimListening ==
    /\ pc = "loop"
    /\ ~convai_active
    /\ variant = "wake" => mic_stream # Nothing

(* C14: a session that ended in any way (create_conversation raised,       *)
(* start_session raised, wait_for_session_end returned or raised) is       *)
(* followed by the finally block, whose step leaves Active for the loop;   *)
(* and, the microphone being openable, every Active position leads to      *)
(* Listening again with a microphone stream.                               *)
C14_SessionEndRestartsListening ==
    /\ [][pc = "finally" => (pc' = "loop" /\ ~convai_active' /\ conversation' = Nothing)]_vars
    /\ (pc \in ActivePositions) ~> ClaimListening

(* After a trigger whose create_conversation raised (no handle for it) the *)
(* wake-word loop listens again on an open stream.                         *)
C14_Witness ==
    /\ variant = "wake"
    /\ ClaimListening
    /\ mainHist.activations = 1
    /\ sessions = <<>>

(* The same after a session that was started and then ended.               *)
C14_WitnessEnded ==
    /\ variant = "wake"
    /\ ClaimListening
    /\ mainHist.activations = 1
    /\ Len(sessions) = 1
    /\ sessions[1].starts = 1
    /\ ~sessions[1].active

(* C15: in the running wake-word loop a frame error, or a failed           *)
(* reopening, leaves the process in the loop with no exit code; the step   *)
(* that handles a frame error drops the stream, waits at least a second    *)
(* and opens a new stream (or is left without one), and every iteration    *)
(* that finds no stream tries to open one before anything else.            *)
C15_MicErrorsKeepLoopRunning ==
    [][/\ (variant = "wake" /\ pc = "loop" /\ mic_stream # Nothing
           /\ mainHist'.last = "frame_error") =>
              /\ pc' = "loop"
              /\ exit_code' = Nothing
              /\ ~convai_active'
              /\ mic_stream' \in {Nothing, Just("SimpleMicStream")}
              /\ hotword_detector'.val.since >= 4
       /\ (variant = "wake" /\ pc = "loop" /\ mic_stream = Nothing) =>
              /\ mainHist'.last = "restart_mic"
              /\ pc' = "loop"
              /\ exit_code' = Nothing
              /\ ~convai_active'
              /\ mic_stream' \in {Nothing, Just("SimpleMicStream")}
      ]_vars

(* A frame error left the loop without a stream and the reopening failed:  *)
(* the loop is still running.                                              *)
C15_Witness ==
    /\ variant = "wake"
    /\ pc = "loop"
    /\ mainHist.last = "restart_mic"
    /\ mic_stream = Nothing
    /\ exit_code = Nothing
    /\ mainHist.activations = 1

----------------------------------------------------------------------------
(***************************************************************************)
(* The orchestrator with the tool handlers' camera use during a session    *)
(* and the interrupt signal: SpecLifetime.                                 *)
(***************************************************************************)
MaxToolCalls == 1

(* the variant whose handler builds a camera of its own *)
tool_camera_fresh(global_camera, cameras) ==
    [camera |-> Just(get_camera.camera), id |-> cameras + 1]
(* a tool handler: `global camera`, then camera.capture() on that object;  *)
(* id: which of the camera objects created so far it is                    *)
tool_camera(global_camera, cameras) == [camera |-> global_camera, id |-> cameras]

(* The capture of a tool handler, run by the voice SDK while the main      *)
(* thread waits in wait_for_session_end.                                   *)
session_tool_capture ==
    /\ pc = "wait_for_session_end"
    /\ sessions[conversation.val].active
    /\ Len(sessions[conversation.val].tool_cameras) < MaxToolCalls
    /\ LET t == tool_camera(camera, mainHist.cameras)
       IN  /\ \E r \in IF t.camera.val.kind = "usb"
                        THEN {usb_capture(t.camera.val, camHist, still_open, device_ok,
                                          frame, TRUE) :
                                 still_open \in BOOLEAN, device_ok \in BOOLEAN,
                                 frame \in CameraFrames}
                        ELSE {pi_capture(t.camera.val, camHist, p[1], p[2], result) :
                                 p \in ProbePairs, result \in CaptureResults} :
                  /\ camera' = Just(r.cam)
                  /\ camHist' = r.hist
           /\ mainHist' = [mainHist EXCEPT !.cameras = t.id, !.last = "tool"]
           /\ sessions' = [sessions EXCEPT ![conversation.val].tool_cameras =
                                Append(@, t.id)]
    /\ UNCHANGED <<env, variant, pc, conversation, convai_active, mic_stream,
                   elevenlabs, hotword_detector, exit_code, missing>>
    /\ UNCHANGED <<outsideMainCam, camCall>>

(* the variant of cleanup() without the try around end_session *)
cleanup_unguarded(conv, cam, hist, end_ok) ==
    IF conv.has /\ ~end_ok
    THEN [end_session |-> "raised", release |-> "none", camera |-> cam,
          hist |-> hist, escaped |-> TRUE]
    ELSE [end_session |-> IF conv.has THEN "ended" ELSE "none",
          release |-> IF cam.has THEN "attempted" ELSE "none",
          camera |-> IF cam.has THEN Just(release(cam.val, hist).cam) ELSE cam,
          hist |-> IF cam.has THEN release(cam.val, hist).hist ELSE hist,
          escaped |-> FALSE]
(* cleanup(): `if conversation:` end_session() in try/except Exception:    *)
(* pass, then `if camera:` release() in try/except Exception: pass         *)
cleanup(conv, cam, hist, end_ok) ==
    [end_session |-> IF ~conv.has THEN "none" ELSE IF end_ok THEN "ended" ELSE "raised",
     release |-> IF cam.has THEN "attempted" ELSE "none",
     camera |-> IF cam.has THEN Just(release(cam.val, hist).cam) ELSE cam,
     hist |-> IF cam.has THEN release(cam.val, hist).hist ELSE hist,
     escaped |-> FALSE]

(* SIGINT once signal.signal has run: signal_handler calls cleanup() and   *)
(* sys.exit(0).  SystemExit is raised in the main thread where it was      *)
(* interrupted: no except Exception catches it, and inside the session's   *)
(* try the finally block runs on the way out.                              *)
signal_handler ==
    /\ pc \notin {"not_started", "exited"}
    /\ \E end_ok \in BOOLEAN, mic_ok \in BOOLEAN :
          LET c == cleanup(conversation, camera, camHist, end_ok)
              in_try == pc \in {"create_conversation", "start_session",
                                "wait_for_session_end"}
              f == finally_block(conversation)
          IN  /\ sessions' = IF c.end_session = "ended"
                             THEN [sessions EXCEPT ![conversation.val].active = FALSE]
                             ELSE sessions
              /\ camera' = c.camera
              /\ camHist' = c.hist
              /\ mainHist' = [mainHist EXCEPT
                                !.last = "interrupt",
                                !.interrupt = [handled |-> TRUE, at |-> pc,
                                               end_session |-> c.end_session,
                                               release |-> c.release,
                                               escaped |-> c.escaped]]
              /\ IF c.escaped THEN sys_exit(1) ELSE sys_exit(0)
              /\ IF in_try
                 THEN /\ convai_active' = f.convai_active
                      /\ conversation' = f.conversation
                      /\ mic_stream' = IF variant = "wake" THEN start_mic_stream(mic_ok)
                                       ELSE mic_stream
                 ELSE UNCHANGED <<convai_active, conversation, mic_stream>>
    /\ UNCHANGED <<env, variant, elevenlabs, hotword_detector, missing>>
    /\ UNCHANGED <<outsideMainCam, camCall>>

NextLifetime ==
    \/ NextMain
    \/ session_tool_capture
    \/ signal_handler

SpecLifetime == InitMain /\ [][NextLifetime]_vars

(* C16: the step of the signal handler tries end_session exactly when a    *)
(* conversation handle exists and camera.release exactly when a camera     *)
(* exists, also when end_session raised; no exception leaves cleanup, a    *)
(* USB camera is left without its device handle, and the process has       *)
(* exited with status 0.                                                   *)
C16_InterruptCleansUpAndExits ==
    [][(mainHist'.interrupt.handled /\ ~mainHist.interrupt.handled) =>
          /\ conversation.has <=> mainHist'.interrupt.end_session \in {"ended", "raised"}
          /\ ~conversation.has <=> mainHist'.interrupt.end_session = "none"
          /\ camera.has <=> mainHist'.interrupt.release = "attempted"
          /\ camera.has => camera'.has /\ camera'.val._cap = Nothing
          /\ (camera.has /\ camera.val._cap.has) => camHist'.releases = camHist.releases + 1
          /\ ~mainHist'.interrupt.escaped
          /\ pc' = "exited"
          /\ exit_code' = Just(0)
      ]_vars

(* An interrupt during a running session whose end_session raised: the     *)
(* open USB device handle was released all the same, and the exit status   *)
(* is 0.                                                                   *)
C16_Witness ==
    /\ mainHist.interrupt.handled
    /\ mainHist.interrupt.at = "wait_for_session_end"
    /\ mainHist.interrupt.end_session = "raised"
    /\ mainHist.interrupt.release = "attempted"
    /\ camera.val.kind = "usb"
    /\ camHist.opens >= 1
    /\ camHist.releases = 1
    /\ exit_code = Just(0)

ClaimEnded(h) ==
    /\ sessions[h].starts = 1
    /\ ~sessions[h].active
    /\ conversation # Just(h)

ClaimOneCamera ==
    /\ mainHist.cameras <= 1
    /\ camera.has <=> mainHist.cameras = 1
    /\ \A h \in DOMAIN sessions :
          \A i \in DOMAIN sessions[h].tool_cameras : sessions[h].tool_cameras[i] = 1

(* C17 as stated: one camera handle at a time, reused by the tool          *)
(* invocations of a session, torn down when the session ends and created   *)
(* anew for the next session (so tool invocations of different sessions    *)
(* never use the same handle).                                             *)
C17_Original ==
    /\ mainHist.cameras >= 1 => camera.has
    /\ \A h \in DOMAIN sessions :
          /\ \A i, j \in DOMAIN sessions[h].tool_cameras :
                sessions[h].tool_cameras[i] = sessions[h].tool_cameras[j]
          /\ ClaimEnded(h) => camHist.releases >= 1
          /\ \A g \in DOMAIN sessions :
                g # h => \A i \in DOMAIN sessions[h].tool_cameras :
                            \A j \in DOMAIN sessions[g].tool_cameras :
                               sessions[h].tool_cameras[i] # sessions[g].tool_cameras[j]

(* C17 (amended): one camera object is created, at startup; every tool     *)
(* invocation of every session uses that object; the end of a session      *)
(* leaves it in place, and only the interrupt cleanup releases it.         *)
C17_OneCameraForAllSessions ==
    /\ ClaimOneCamera
    /\ camHist.releases >= 1 => mainHist.interrupt.handled
    /\ (pc \in {"loop"} \cup ActivePositions) => camera.has

(* Two sessions ended, each with a tool capture, on the one camera that    *)
(* was created at startup and is still there, unreleased.                  *)
C17_Witness ==
    /\ pc = "loop"
    /\ Len(sessions) = 2
    /\ ClaimEnded(1)
    /\ ClaimEnded(2)
    /\ sessions[1].tool_cameras = <<1>>
    /\ sessions[2].tool_cameras = <<1>>
    /\ camera.has
    /\ camHist.releases = 0

----------------------------------------------------------------------------
(* Camera backend selection (SpecLifetime)                                 *)

ClaimIsPi == env["CAMERA_TYPE"] \in {Just(<<"p", "i">>), Just(<<"P", "i">>),
                                     Just(<<"p", "I">>), Just(<<"P", "I">>)}
ClaimIndex ==
    IF env["USB_CAMERA_INDEX"] = Nothing THEN 0
    ELSE IF env["USB_CAMERA_INDEX"] = Just(<<"1", "2">>) THEN 12
    ELSE -1
ClaimSelected == mainHist.cameras >= 1 \/ mainHist.camera_error.has

(* C21 as stated: once get_camera() has run there is a camera, the Pi      *)
(* backend exactly when CAMERA_TYPE is 'pi' in any case, else the USB      *)
(* backend, whatever USB_CAMERA_INDEX holds.                               *)
C21_Original ==
    (ClaimSelected \/ pc \in {"loop"} \cup ActivePositions) =>
        /\ camera.has
        /\ camera.val.kind = IF ClaimIsPi THEN "pi" ELSE "usb"

(* C21 (amended): get_camera() gives the Pi backend exactly when           *)
(* CAMERA_TYPE is 'pi' in any case; otherwise the USB backend on index     *)
(* int(USB_CAMERA_INDEX), 0 when unset, provided the value is an integer   *)
(* literal, and else it raises ValueError, main() ends with status 1 and   *)
(* no camera exists.  The choice is made once and the backend and index    *)
(* never change afterwards.                                                *)
C21_BackendSelection ==
    /\ mainHist.cameras <= 1
    /\ ~ClaimSelected => camera = Nothing
    /\ ClaimSelected =>
          IF ~ClaimIsPi /\ ClaimIndex = -1
          THEN /\ mainHist.camera_error = Just("ValueError")
               /\ camera = Nothing
               /\ pc = "exited"
               /\ exit_code = Just(1)
          ELSE /\ ~mainHist.camera_error.has
               /\ camera.has
               /\ camera.val.kind = IF ClaimIsPi THEN "pi" ELSE "usb"
               /\ ~ClaimIsPi => camera.val.device_index = ClaimIndex

(* CAMERA_TYPE=Pi chose the Pi backend, which is still the camera after a  *)
(* session with a tool capture.                                            *)
C21_Witness ==
    /\ env["CAMERA_TYPE"] = Just(<<"P", "i">>)
    /\ camera.has
    /\ camera.val.kind = "pi"
    /\ pc = "loop"
    /\ Len(sessions) = 1
    /\ sessions[1].tool_cameras = <<1>>

(* CAMERA_TYPE=x and USB_CAMERA_INDEX=12 chose the USB backend on 12.      *)
C21_WitnessUsb ==
    /\ env["CAMERA_TYPE"] = Just(<<"x">>)
    /\ camera.has
    /\ camera.val.kind = "usb"
    /\ camera.val.device_index = 12
    /\ pc = "loop"

----------------------------------------------------------------------------
(* Exceptions inside the tool handlers (SpecTools)                         *)

ClaimHandlerApologies ==
    {"Sorry, I had trouble identifying the cash: ",
     "Sorry, I had trouble reading the packaging: ",
     "Sorry, I had trouble identifying the item: ",
     "Sorry, I had trouble creating the listing: ",
     "Sorry, the Asteroid SDK is not installed. Please run: pip install asteroid-odyssey"}

(* C22: whenever the analysis step of a handler raised (the client could   *)
(* not be constructed, an import failed, the vision or detail call         *)
(* raised), the handler did not raise and returned a text that begins with *)
(* its apology; and no step of a handler touches the conversation handle,  *)
(* convai_active, the position of main() or the exit code.                 *)
C22_HandlerCatchesAnalysisErrors ==
    /\ [][toolCall'.called =>
             UNCHANGED <<conversation, convai_active, pc, exit_code>>]_vars
    /\ []((toolCall.called /\ toolCall.caught.has) =>
             (/\ ~toolCall.raised
              /\ Len(toolCall.returned) > 0
              /\ toolCall.returned[1] \in ClaimHandlerApologies))
    /\ []((toolCall.called /\ toolCall.captured.has /\ ~toolCall.client_text.has
           /\ toolCall.tool # "create_listing") => toolCall.caught.has)

(* identify_cash was invoked with no GOOGLE_API_KEY: the client could not  *)
(* be constructed and the handler apologised.                              *)
C22_Witness ==
    /\ toolCall.called
    /\ toolCall.tool = "identify_cash"
    /\ toolCall.orchestrator = "wake"
    /\ toolCall.caught.has
    /\ toolCall.caught.val.type = "ValueError"
    /\ toolCall.returned[1] = "Sorry, I had trouble identifying the cash: "

(* An import inside create_listing's try failed.                           *)
C22_WitnessImport ==
    /\ toolCall.called
    /\ toolCall.tool = "create_listing"
    /\ toolCall.caught = Just(ImportErrorExc)
    /\ ~toolCall.raised

----------------------------------------------------------------------------
(* The microphone stream during the Active state (SpecLifetime)            *)

(* C23: in the wake-word orchestrator there is no microphone stream in     *)
(* any state where a conversation handle exists or convai_active is true,  *)
(* and a step that opens a stream ends with the handle discarded and       *)
(* convai_active false.                                                    *)
C23_MicHaltedWhileActive ==
    /\ []((variant = "wake" /\ (conversation.has \/ convai_active)) =>
             mic_stream = Nothing)
    /\ [][(variant = "wake" /\ mic_stream = Nothing /\ mic_stream' # Nothing) =>
             (conversation' = Nothing /\ ~convai_active')]_vars

(* The first session is running on its handle with the stream halted.      *)
C23_Witness ==
    /\ variant = "wake"
    /\ pc = "wait_for_session_end"
    /\ conversation = Just(1)
    /\ sessions[1].active
    /\ convai_active
    /\ mic_stream = Nothing
    /\ mainHist.last = "wake_word"

----------------------------------------------------------------------------
(* The keyboard loop (SpecMain)                                            *)

ClaimStartKeys == {Just("a"), Just("A")}

ClaimSessionSteps ==
    { <<"create_conversation", "start_session">>, <<"create_conversation", "finally">>,
      <<"start_session", "wait_for_session_end">>, <<"start_session", "finally">>,
      <<"wait_for_session_end", "finally">>, <<"finally", "loop">> }

(* C24: in the keyboard loop an iteration goes Active, towards             *)
(* create_conversation, exactly when the key read is 'a' or 'A'; on 's',   *)
(* any other key, no key or a read error the handle, convai_active, the    *)
(* position and the sessions stay as they were; and once Active, either    *)
(* orchestrator moves through create, start, wait and the finally block    *)
(* back to the loop with the handle discarded.                             *)
C24_KeyboardStart ==
    /\ [][(variant = "kbd" /\ pc = "loop") =>
             /\ ~convai_active
             /\ (pc' = "create_conversation" /\ convai_active')
                    <=> mainHist'.key \in ClaimStartKeys
             /\ mainHist'.key \notin ClaimStartKeys =>
                    UNCHANGED <<conversation, convai_active, pc, sessions>>]_vars
    /\ [][(pc \in ActivePositions /\ pc' # pc) =>
             /\ <<pc, pc'>> \in ClaimSessionSteps
             /\ pc' = "loop" => (conversation' = Nothing /\ ~convai_active')]_vars

(* Key 'A' started the session that is now running; no wake-word match     *)
(* was involved.                                                           *)
C24_Witness ==
    /\ variant = "kbd"
    /\ mainHist.key = Just("A")
    /\ pc = "wait_for_session_end"
    /\ sessions[1].active
    /\ mainHist.matches = 0
    /\ hotword_detector = Nothing

(* Key 's' after a finished session left the loop waiting.                 *)
C24_WitnessCancel ==
    /\ variant = "kbd"
    /\ mainHist.key = Just("s")
    /\ pc = "loop"
    /\ Len(sessions) = 1
    /\ conversation = Nothing

----------------------------------------------------------------------------
(* Order of the steps of create_listing (SpecTools)                        *)

ClaimExtract == [api |-> "get_item_details_for_listing"]
ClaimSubmitted ==
    \E i \in DOMAIN toolCall.calls : toolCall.calls[i].api = "create_ebay_listing"

(* C25: a create_listing invocation calls the detail extraction only       *)
(* after a capture that gave an image, and the listing submission only as  *)
(* the second call, after an extraction that returned without a (truthy)   *)
(* error; after a failed capture or an extraction error it returns an      *)
(* apology and no listing was submitted.                                   *)
C25_ListingStepOrder ==
    (toolCall.called /\ toolCall.tool = "create_listing") =>
        /\ toolCall.calls # <<>> =>
              /\ toolCall.capture_attempted
              /\ toolCall.captured.has
              /\ toolCall.calls[1] = ClaimExtract
        /\ ClaimSubmitted =>
              /\ Len(toolCall.calls) = 2
              /\ toolCall.calls[2].api = "create_ebay_listing"
              /\ toolCall.remote.ok
              /\ toolCall.remote.error \in {Nothing, Just("")}
        /\ ~toolCall.captured.has =>
              /\ toolCall.calls = <<>>
              /\ toolCall.returned \in {CameraUnavailable, CaptureFailed}
        /\ (toolCall.calls # <<>> /\ toolCall.remote.ok
               /\ toolCall.remote.error = Just("blurry")) =>
              /\ ~ClaimSubmitted
              /\ toolCall.returned = <<"Sorry, I had trouble analyzing the item: ", "blurry">>

(* The extraction reported the error "blurry": apology, nothing submitted. *)
C25_Witness ==
    /\ toolCall.called
    /\ toolCall.tool = "create_listing"
    /\ toolCall.captured.has
    /\ toolCall.remote.ok
    /\ toolCall.remote.error = Just("blurry")
    /\ toolCall.calls = <<ClaimExtract>>

(* Capture, extraction and submission all happened, in that order.         *)
C25_WitnessSubmitted ==
    /\ toolCall.called
    /\ toolCall.tool = "create_listing"
    /\ Len(toolCall.calls) = 2
    /\ toolCall.calls[1] = ClaimExtract
    /\ ClaimSubmitted

----------------------------------------------------------------------------
(* USBCamera: the frame capture() returns, and the device handle           *)
(* (SpecCamera)                                                            *)

ClaimUsbCaptured ==
    /\ camCall.called
    /\ camCall.op = "capture"
    /\ camCall.before.kind = "usb"
    /\ camCall.image.has

ClaimUsbUse ==
    /\ camCall.called
    /\ camCall.before.kind = "usb"
    /\ camCall.op \in {"is_available", "capture"}
ClaimHeldOpen ==
    /\ camCall.before._cap.has
    /\ camCall.before._cap.val.handle \in camCall.hist_before.open
    /\ camCall.given.still_open

(* C27: over any sequence of is_available(), capture() and release() on a  *)
(* USBCamera at most one handle holds the device open, and it is the one   *)
(* the object refers to; a call that finds the object holding an open      *)
(* handle keeps that handle and opens nothing; a call that finds none      *)
(* opens the device once; and the call after a release() opens it again.   *)
C27_OneOpenHandle ==
    (camera.has /\ camera.val.kind = "usb") =>
        /\ Cardinality(camHist.open) <= 1
        /\ camHist.open \subseteq
              (IF camera.val._cap.has THEN {camera.val._cap.val.handle} ELSE {})
        /\ (ClaimUsbUse /\ ClaimHeldOpen) =>
              /\ camera.val._cap = camCall.before._cap
              /\ camHist.opens = camCall.hist_before.opens
        /\ (ClaimUsbUse /\ ~ClaimHeldOpen) =>
              /\ camHist.opens = camCall.hist_before.opens + 1
              /\ camera.val._cap.val.handle = camHist.opens
        /\ (ClaimUsbUse /\ camCall.prev = "release") =>
              /\ camCall.before._cap = Nothing
              /\ camHist.opens = camCall.hist_before.opens + 1

(* open, use, release, and a capture that opened the device a second time: *)
(* handle 2 is the only one open.                                          *)
C27_Witness ==
    /\ ClaimUsbUse
    /\ camCall.op = "capture"
    /\ camCall.prev = "release"
    /\ camHist.releases = 1
    /\ camHist.opens = 2
    /\ camHist.open = {2}

(* A capture that reused the handle is_available had opened.               *)
C27_WitnessReuse ==
    /\ ClaimUsbUse
    /\ ClaimHeldOpen
    /\ camCall.op = "capture"
    /\ camCall.prev = "is_available"
    /\ camHist.opens = 1
    /\ camHist.open = {1}

----------------------------------------------------------------------------
(***************************************************************************)
(* Direct calls of the convenience functions: SpecConvenience.             *)
(***************************************************************************)
BytesArgs == {Nothing, Just(<<77>>)}
PathArgs == {Nothing, Just("note.jpg")}
(* the camera argument: none, or a camera whose capture() gives this *)
CameraArgs == {Nothing, Just(Nothing), Just(Just(<<0, 128, 255>>))}
(* the file is read only when the path is the input that is used, and the  *)
(* remote service answers only when it is asked                            *)
FilesRead(image_bytes, image_path, cam) ==
    IF ~cam.has /\ ~image_bytes.has /\ image_path.has
    THEN VisionFiles ELSE {CHOOSE f \in VisionFiles : f.kind = "ok"}
RemoteAsked(image_bytes, image_path, cam) ==
    IF (cam.has /\ ~cam.val.has) \/ (~cam.has /\ ~image_bytes.has /\ ~image_path.has)
    THEN {CHOOSE o \in RemoteOutcomes : o.ok} ELSE RemoteOutcomes

(* The function of module mod was called with these arguments and gave r.  *)
ConvenienceCalled(mod, image_bytes, image_path, cam, remote, file, r) ==
    /\ visionCall' = [called |-> TRUE, module |-> mod, shape |-> "convenience",
                      image_bytes |-> image_bytes, image_path |-> image_path,
                      camera |-> cam, remote |-> remote, file |-> file,
                      raised |-> r.raised, text |-> r.text, calls |-> r.calls]
    /\ recognizers' = r.recognizers
    /\ genai_key' = r.genai_key
    /\ UNCHANGED outsideConvenience

identify_cash_call ==
    /\ \E image_bytes \in BytesArgs, image_path \in PathArgs, cam \in CameraArgs :
         \E remote \in RemoteAsked(image_bytes, image_path, cam),
            file \in FilesRead(image_bytes, image_path, cam) :
          ConvenienceCalled("cash_recognition", image_bytes, image_path, cam, remote, file,
                            identify_cash(image_bytes, image_path, cam, remote, file))

read_packaging_call ==
    /\ \E image_bytes \in BytesArgs, image_path \in PathArgs, cam \in CameraArgs :
         \E remote \in RemoteAsked(image_bytes, image_path, cam),
            file \in FilesRead(image_bytes, image_path, cam) :
          ConvenienceCalled("packaging_reader", image_bytes, image_path, cam, remote, file,
                            read_packaging(image_bytes, image_path, cam, remote, file))

identify_item_call ==
    /\ \E image_bytes \in BytesArgs, image_path \in PathArgs, cam \in CameraArgs :
         \E remote \in RemoteAsked(image_bytes, image_path, cam),
            file \in FilesRead(image_bytes, image_path, cam) :
          ConvenienceCalled("item_recognition", image_bytes, image_path, cam, remote, file,
                            identify_item(image_bytes, image_path, cam, remote, file))

describe_image_call ==
    /\ \E image_bytes \in BytesArgs, image_path \in PathArgs, cam \in CameraArgs :
         \E remote \in RemoteAsked(image_bytes, image_path, cam),
            file \in FilesRead(image_bytes, image_path, cam) :
          ConvenienceCalled("analysis", image_bytes, image_path, cam, remote, file,
                            describe_image(image_bytes, image_path, cam, remote, file))

InitConvenience ==
    /\ env \in [{"GOOGLE_API_KEY"} -> {Nothing, Just(""), Just("e1")}]
    /\ camera = Nothing
    /\ recognizers = NoRecognizers
    /\ toolCall = NoCall
    /\ b64Call = NoCall
    /\ genai_key = Nothing
    /\ clientCall = NoCall
    /\ ListingIdle

NextConvenience ==
    \/ identify_cash_call
    \/ read_packaging_call
    \/ identify_item_call
    \/ describe_image_call

SpecConvenience == InitConvenience /\ [][NextConvenience]_vars

ClaimConvenience == visionCall.called /\ visionCall.shape = "convenience"
ClaimNoKey == env["GOOGLE_API_KEY"] \in {Nothing, Just("")}
ClaimCaptureApology ==
    <<"Sorry, I couldn't capture an image from the camera. Please check the camera connection.">>
ClaimNoImage == <<"No image provided. Please provide an image to analyze.">>
(* the one remote call was made on image x and its answer was returned *)
ClaimAnalysed(x) ==
    /\ Len(visionCall.calls) = 1
    /\ visionCall.calls[1].api = "generate_content"
    /\ visionCall.calls[1].data = ClaimBase64[x]
    /\ visionCall.remote.ok => visionCall.text = Just(visionCall.remote.text)
    /\ ~visionCall.remote.ok =>
          visionCall.text.val[1] \in {"Sorry, I had trouble analyzing the image: ",
                                      "Sorry, I had trouble reading the packaging: "}
ClaimPriority ==
    /\ visionCall.raised = Nothing
    /\ (visionCall.camera.has /\ visionCall.camera.val.has) =>
          ClaimAnalysed(visionCall.camera.val.val)
    /\ (visionCall.camera.has /\ ~visionCall.camera.val.has) =>
          /\ visionCall.text = Just(ClaimCaptureApology)
          /\ visionCall.calls = <<>>
    /\ (~visionCall.camera.has /\ visionCall.image_bytes.has) =>
          ClaimAnalysed(visionCall.image_bytes.val)
    /\ (~visionCall.camera.has /\ ~visionCall.image_bytes.has
           /\ visionCall.image_path.has /\ visionCall.file.kind = "ok") =>
          ClaimAnalysed(visionCall.file.data)
    /\ (~visionCall.camera.has /\ ~visionCall.image_bytes.has
           /\ visionCall.image_path.has /\ visionCall.file.kind # "ok") =>
          visionCall.calls = <<>>
    /\ (~visionCall.camera.has /\ ~visionCall.image_bytes.has
           /\ ~visionCall.image_path.has) =>
          /\ visionCall.text = Just(ClaimNoImage)
          /\ visionCall.calls = <<>>

(* C28 as stated: every call of a convenience function returns a text      *)
(* chosen by the priority camera, image_bytes, image_path.                 *)
C28_Original == ClaimConvenience => ClaimPriority

(* C28 (amended): a convenience function first gets its module's client;   *)
(* when no client exists and GOOGLE_API_KEY is unset or empty it raises    *)
(* ValueError whatever the arguments, with no remote call; otherwise it    *)
(* chooses by the priority camera, image_bytes, image_path: the camera's   *)
(* image is analysed whatever the other arguments, a failed capture gives  *)
(* the capture apology with no remote call, and no input at all gives the  *)
(* 'No image provided' message with no remote call.                        *)
C28_InputPriority ==
    ClaimConvenience =>
        IF ClaimNoKey
        THEN /\ visionCall.raised.has
             /\ visionCall.raised.val.type = "ValueError"
             /\ visionCall.text = Nothing
             /\ visionCall.calls = <<>>
        ELSE ClaimPriority

(* identify_cash(image_bytes, image_path, camera) with all three given     *)
(* analysed the camera's image.                                            *)
C28_Witness ==
    /\ ClaimConvenience
    /\ visionCall.module = "cash_recognition"
    /\ visionCall.camera = Just(Just(<<0, 128, 255>>))
    /\ visionCall.image_bytes = Just(<<77>>)
    /\ visionCall.image_path.has
    /\ visionCall.text = Just(<<"I see a twenty pound note.">>)
    /\ Len(visionCall.calls) = 1
    /\ visionCall.calls[1].data = <<0, 8, 3, 63>>

(* describe_image() with no input and a key gave the 'No image' message.   *)
C28_WitnessNoInput ==
    /\ ClaimConvenience
    /\ visionCall.module = "analysis"
    /\ ~visionCall.camera.has
    /\ ~visionCall.image_bytes.has
    /\ ~visionCall.image_path.has
    /\ visionCall.text = Just(ClaimNoImage)

====
